---- MODULE Spec2Model ----
(***************************************************************************)
(* Model of the app-store review ETL pipeline (lilac02leila/Data-          *)
(* Engineering): the duplicate reconciler of scenario 4, the review        *)
(* transformation of step 2 with the serving layer of step 3, the full     *)
(* rebuild of scenario 1, the schema mapper of scenario 2, the quality gate *)
(* of scenario 3, the ingestion of step 1 and the driver run_pipeline.     *)
(*                                                                         *)
(* A table cell is an option: Null (pandas NaN / None / NaT) is the empty  *)
(* tuple and a present value v is the one-element tuple <<v>>.  A raw      *)
(* string is a tuple of one-character strings, so that parsing is          *)
(* computed and not assumed.                                               *)
(***************************************************************************)
EXTENDS Integers, Sequences, FiniteSets, TLC

VARIABLES
    pc,             \* position of the script that is running
    apps,           \* scenario 4: the app table read by load_updated_apps
    applied,        \* scenario 4: what pick_best_record returned, per group
    apps_smart,     \* scenario 4: the result of handle_duplicates_smart
    s4_reviews,     \* scenario 4: apps_reviews.csv as test_join_impact reads it
    joined_dups,    \* scenario 4: reviews merged with the apps as loaded
    joined_clean,   \* scenario 4: reviews merged with the deduplicated apps
    integrity,      \* scenario 4: what create_referential_integrity_report computes
    apps_data,      \* step 2: the records of data/raw/apps_metadata.json
    reviews_data,   \* step 2: the records of data/raw/apps_reviews.jsonl
    df_apps,        \* step 2: the result of transform_apps_data
    df_reviews,     \* step 2: the result of transform_reviews_data
    summary,        \* step 2: the counts transform_reviews_data prints
    apps_errors,    \* step 2: the error_count of transform_apps_data
    files,          \* data/processed: the tables written as CSV
    served,         \* step 3: df_reviews as loaded, then as left by the step
    app_kpis,       \* step 3: the result of create_app_level_kpis
    daily_metrics,  \* step 3: the result of create_daily_metrics
    existing_apps,  \* scenario 1: apps_catalog.csv as loaded
    existing_reviews, \* scenario 1: apps_reviews.csv as loaded
    new_batch,      \* scenario 1: note_taking_ai_reviews_batch2.csv as loaded
    updated_reviews, \* scenario 1: the result of process_new_batch_full_rebuild
    rebuild_counts, \* scenario 1: the counts process_new_batch_full_rebuild prints
    dirty_data,     \* scenario 3: note_taking_ai_reviews_dirty.csv as loaded
    clean_data,     \* scenario 3: the result of process_with_validation
    report,         \* scenario 3: the figures of create_data_quality_report
    drift_data,     \* scenario 2: the frame load_schema_drift_data returns
    mappings,       \* scenario 2: the result of detect_schema_differences
    schema_map,     \* scenario 2: the result of create_schema_mapper
    transformed,    \* scenario 2: the result of transform_with_mapper
    raw_files,      \* data/raw: the input files of the scenarios that exist
    app_ids,        \* step 1: the list search_ai_note_apps returned
    fetch_log,      \* step 1: the calls made to the store, in their order
    driver,         \* run_pipeline: the position of main
    step,           \* run_pipeline: the place in steps of the stage at hand
    results         \* run_pipeline: the list main reports at its end

joinVars == <<s4_reviews, joined_dups, joined_clean, integrity>>

reconcileVars == <<apps, applied, apps_smart, joinVars>>

pipelineVars ==
    <<apps_data, reviews_data, df_apps, df_reviews, summary, apps_errors, files, served,
      app_kpis, daily_metrics>>

rebuildVars == <<existing_apps, existing_reviews, new_batch, updated_reviews, rebuild_counts>>

driftVars == <<drift_data, mappings, schema_map, transformed>>

hostVars == <<raw_files, app_ids, fetch_log, driver, step, results>>

gateVars == <<dirty_data, clean_data, report, driftVars, hostVars>>

vars == <<pc, reconcileVars, pipelineVars, rebuildVars, gateVars>>

-----------------------------------------------------------------------------
(* Cells and small helpers                                                 *)

Null == <<>>

Some(v) == <<v>>

NoReport ==
    [total_records |-> 0, clean_records |-> 0, rejected_records |-> 0,
     invalid_scores |-> 0, invalid_dates |-> 0, missing_content |-> 0,
     negative_thumbs |-> 0]

NoIntegrity ==
    [app_ids_in_catalog |-> {}, app_ids_in_reviews |-> {}, orphan_reviews |-> {},
     unused_apps |-> {}, count |-> 0]

JoinIdle ==
    /\ s4_reviews = <<>>
    /\ joined_dups = <<>>
    /\ joined_clean = <<>>
    /\ integrity = NoIntegrity

\* A frame: the names of its columns, the dtype of each and its rows.
NoDriftFrame == [columns |-> {}, dtypes |-> <<>>, rows |-> <<>>]

DriftIdle ==
    /\ drift_data = NoDriftFrame
    /\ mappings = <<>>
    /\ schema_map = <<>>
    /\ transformed = NoDriftFrame

\* The input files of the scenarios, under data/raw.
DriftFile == "note_taking_ai_reviews_schema_drift.csv"

DirtyFile == "note_taking_ai_reviews_dirty.csv"

UpdatedAppsFile == "note_taking_ai_apps_updated.csv"

ScenarioFiles == {DriftFile, DirtyFile, UpdatedAppsFile}

\* Every input file is there, step 1 and the driver are not running.
HostIdle ==
    /\ raw_files = ScenarioFiles
    /\ app_ids = <<>>
    /\ fetch_log = <<>>
    /\ driver = "idle"
    /\ step = 0
    /\ results = <<>>

GateIdle ==
    /\ dirty_data = <<>>
    /\ clean_data = <<>>
    /\ report = NoReport
    /\ DriftIdle
    /\ HostIdle

notna(cell) == cell # Null

Val(cell) == cell[1]

Range(s) == {s[i] : i \in DOMAIN s}

RECURSIVE SumSeq(_)
SumSeq(s) == IF s = <<>> THEN 0 ELSE Head(s) + SumSeq(Tail(s))

RECURSIVE Concat(_)
Concat(ss) == IF ss = <<>> THEN <<>> ELSE Head(ss) \o Concat(Tail(ss))

\* The rows of `table` that satisfy Keep, in table order (boolean indexing).
Filter(table, Keep(_)) == SelectSeq(table, Keep)

-----------------------------------------------------------------------------
(* Scenario 4: handle_duplicates_smart                                     *)

MaxRows == 3

\* appId values in their sort order (groupby sorts the group keys).
AppIdOrder == <<"x", "y">>

AppIds == Range(AppIdOrder)

\* One row of note_taking_ai_apps_updated.csv, on the columns the
\* reconciler reads.  score is in tenths (42 is 4.2).
AppRow ==
    [appId : {Some(a) : a \in AppIds},
     title : {Null, Some("A"), Some("B")},
     score : {Null, Some(42)},
     ratings : {Some(0), Some(500)}]

AppColumns == {"appId", "title", "score", "ratings"}

AppTables == UNION {[1..n -> AppRow] : n \in 1..MaxRows}

\* Column order of a row returned by pick_best_record.
ColumnOrder == <<"appId", "title", "score", "ratings", "has_score", "complete_fields">>

\* group.notna().sum(axis=1) for one row
CountNotna(row) == Cardinality({c \in DOMAIN row : notna(row[c])})

\* Lines 145-147: the group with its two helper columns.  complete_fields
\* is computed after has_score was added, so it counts that column too.
WithRankColumns(row) ==
    LET r1 == [c \in DOMAIN row \cup {"has_score"} |->
                 IF c = "has_score" THEN Some(notna(row.score)) ELSE row[c]]
    IN  [c \in DOMAIN r1 \cup {"complete_fields"} |->
           IF c = "complete_fields" THEN Some(CountNotna(r1)) ELSE r1[c]]

\* Descending order on one sort column, NaN last (na_position='last').
DescBefore(a, b) ==
    IF a = Null THEN FALSE
    ELSE IF b = Null THEN TRUE
    ELSE Val(a) > Val(b)

BoolRank(cell) == IF Val(cell) THEN 1 ELSE 0

\* r sorts strictly before s under
\* sort_values(['has_score','ratings','complete_fields'], ascending=False x3)
SortsBefore(r, s) ==
    \/ BoolRank(r.has_score) > BoolRank(s.has_score)
    \/ /\ r.has_score = s.has_score
       /\ DescBefore(r.ratings, s.ratings)
    \/ /\ r.has_score = s.has_score
       /\ r.ratings = s.ratings
       /\ DescBefore(r.complete_fields, s.complete_fields)

\* A sort that is not stable: r goes before the rows it ties with.
InsertUnstable(sorted, r) ==
    LET ahead == {i \in DOMAIN sorted : ~SortsBefore(sorted[i], r)}
        pos == IF ahead = {} THEN Len(sorted) + 1
               ELSE CHOOSE i \in ahead : \A j \in ahead : i <= j
    IN  SubSeq(sorted, 1, pos - 1) \o <<r>> \o SubSeq(sorted, pos, Len(sorted))

\* Stable insertion of row r into the sorted prefix: r goes before the
\* first row it sorts strictly before, hence after every row it ties with.
InsertStable(sorted, r) ==
    LET ahead == {i \in DOMAIN sorted : SortsBefore(r, sorted[i])}
        pos == IF ahead = {} THEN Len(sorted) + 1
               ELSE CHOOSE i \in ahead : \A j \in ahead : i <= j
    IN  SubSeq(sorted, 1, pos - 1) \o <<r>> \o SubSeq(sorted, pos, Len(sorted))

RECURSIVE SortFrom(_, _)
SortFrom(sorted, rest) ==
    IF rest = <<>> THEN sorted
    ELSE SortFrom(InsertStable(sorted, Head(rest)), Tail(rest))

\* DataFrame.sort_values on several columns is a stable sort.
sort_values(group) == SortFrom(<<>>, group)

\* "Keep first": the naive choice of handle_duplicates_naive.
pick_first_record(group) ==
    IF Len(group) = 1 THEN group[1]
    ELSE WithRankColumns(group[1])

\* Lines 135-155.
pick_best_record(group) ==
    IF Len(group) = 1 THEN group[1]
    ELSE sort_values([i \in DOMAIN group |-> WithRankColumns(group[i])])[1]

\* The rows of one appId, in table order.
GroupOf(table, id) == SelectSeq(table, LAMBDA r : r.appId = Some(id))

\* groupby('appId'): the keys that occur, sorted; null keys are dropped.
GroupKeys(table) ==
    SelectSeq(AppIdOrder, LAMBDA id : \E i \in DOMAIN table : table[i].appId = Some(id))

\* What apply collects: one returned row per group, in key order.
ApplyPick(table) ==
    LET keys == GroupKeys(table)
    IN  [i \in DOMAIN keys |-> pick_best_record(GroupOf(table, keys[i]))]

\* The values of one returned row, in column order.
RowValues(row) ==
    LET cols == SelectSeq(ColumnOrder, LAMBDA c : c \in DOMAIN row)
    IN  [i \in DOMAIN cols |-> row[cols[i]]]

\* groupby(...).apply(pick_best_record) followed by reset_index(drop=True):
\* returned rows that all carry the same labels become the rows of a
\* DataFrame; rows with different labels (a single-row group next to a
\* group that was sorted) are concatenated into one long Series of cells.
WrapApplied(values) ==
    IF \A i, j \in DOMAIN values : DOMAIN values[i] = DOMAIN values[j]
    THEN [kind |-> "DataFrame", rows |-> values, cells |-> <<>>]
    ELSE [kind |-> "Series", rows |-> <<>>,
          cells |-> Concat([i \in DOMAIN values |-> RowValues(values[i])])]

NoFrame == [kind |-> "none", rows |-> <<>>, cells |-> <<>>]

ReconcileIdle ==
    /\ apps = <<>>
    /\ applied = <<>>
    /\ apps_smart = NoFrame
    /\ JoinIdle

InitReconcile ==
    /\ pc = "s4_loaded"
    /\ apps \in AppTables
    /\ applied = <<>>
    /\ apps_smart = NoFrame
    /\ JoinIdle
    /\ apps_data = <<>>
    /\ reviews_data = <<>>
    /\ df_apps = <<>>
    /\ df_reviews = <<>>
    /\ summary = [rows |-> <<>>, skipped |-> 0, errors |-> 0, duplicates |-> 0,
                  invalid |-> 0, reported |-> FALSE]
    /\ apps_errors = 0
    /\ files = [apps_catalog |-> <<>>, apps_reviews |-> <<>>]
    /\ served = <<>>
    /\ app_kpis = <<>>
    /\ daily_metrics = <<>>
    /\ existing_apps = <<>>
    /\ existing_reviews = <<>>
    /\ new_batch = <<>>
    /\ updated_reviews = <<>>
    /\ rebuild_counts = [rows |-> <<>>, combined |-> 0, duplicates |-> 0, unknown |-> 0]
    /\ GateIdle

\* Lines 126-163.
HandleDuplicatesSmart ==
    /\ pc = "s4_loaded"
    /\ applied' = ApplyPick(apps)
    /\ apps_smart' = WrapApplied(ApplyPick(apps))
    /\ pc' = "s4_resolved"
    /\ UNCHANGED <<apps, joinVars, pipelineVars, rebuildVars, gateVars>>

NextReconcile == HandleDuplicatesSmart

SpecReconcile == InitReconcile /\ [][NextReconcile]_vars

\* The same script on the tables whose records all share one appId.
InitSameKey ==
    /\ InitReconcile
    /\ \A i \in DOMAIN apps : apps[i].appId = Some(AppIdOrder[1])

SpecSameKey == InitSameKey /\ [][NextReconcile]_vars

-----------------------------------------------------------------------------
(* Text conversions.  A text is a tuple of one-character strings.          *)

DigitChars == <<"0", "1", "2", "3", "4", "5", "6", "7", "8", "9">>

IsDigit(ch) == \E k \in DOMAIN DigitChars : DigitChars[k] = ch

DigitVal(ch) == (CHOOSE k \in DOMAIN DigitChars : DigitChars[k] = ch) - 1

AllDigits(t) == Len(t) > 0 /\ \A k \in DOMAIN t : IsDigit(t[k])

RECURSIVE NatOf(_)
NatOf(t) == IF t = <<>> THEN 0 ELSE 10 * NatOf(SubSeq(t, 1, Len(t) - 1)) + DigitVal(t[Len(t)])

RECURSIVE NatText(_)
NatText(n) == IF n < 10 THEN <<DigitChars[n + 1]>> ELSE NatText(n \div 10) \o <<DigitChars[(n % 10) + 1]>>

\* str() of an integer
IntText(n) == IF n < 0 THEN <<"-">> \o NatText(0 - n) ELSE NatText(n)

\* A number written with at least w digits (strftime's %Y, %m, %d).
RECURSIVE Padded(_, _)
Padded(n, w) == IF Len(NatText(n)) >= w THEN NatText(n) ELSE <<"0">> \o Padded(n, w - 1)

\* pd.to_numeric(..., errors='coerce') on one cell holding a text: an
\* optionally signed run of digits is its number, anything else is NaN.
to_numeric(cell) ==
    IF cell = Null THEN Null
    ELSE LET t == Val(cell)
         IN  IF AllDigits(t) THEN Some(NatOf(t))
             ELSE IF Len(t) > 1 /\ t[1] = "-" /\ AllDigits(Tail(t)) THEN Some(0 - NatOf(Tail(t)))
             ELSE Null

IsLeap(y) == (y % 4 = 0 /\ y % 100 # 0) \/ y % 400 = 0

DaysIn(y, m) ==
    IF m = 2 THEN (IF IsLeap(y) THEN 29 ELSE 28)
    ELSE IF m \in {4, 6, 9, 11} THEN 30 ELSE 31

\* pd.to_datetime(..., errors='coerce') on one cell holding a text, at the
\* resolution of a day: YYYY-MM-DD with a real month and day is the date
\* <<y, m, d>>, anything else is NaT.
to_datetime(cell) ==
    IF cell = Null THEN Null
    ELSE LET t == Val(cell)
         IN  IF /\ Len(t) = 10
                /\ t[5] = "-"
                /\ t[8] = "-"
                /\ AllDigits(SubSeq(t, 1, 4))
                /\ AllDigits(SubSeq(t, 6, 7))
                /\ AllDigits(SubSeq(t, 9, 10))
             THEN LET y == NatOf(SubSeq(t, 1, 4))
                      m == NatOf(SubSeq(t, 6, 7))
                      d == NatOf(SubSeq(t, 9, 10))
                  IN  IF m \in 1..12 /\ d >= 1 /\ d <= DaysIn(y, m)
                      THEN Some(<<y, m, d>>)
                      ELSE Null
             ELSE Null

\* strftime('%Y-%m-%d ...') and the text to_csv writes for a timestamp.
DateText(date) ==
    Padded(date[1], 4) \o <<"-">> \o Padded(date[2], 2) \o <<"-">> \o Padded(date[3], 2)

DateBefore(d, e) ==
    \/ d[1] < e[1]
    \/ d[1] = e[1] /\ d[2] < e[2]
    \/ d[1] = e[1] /\ d[2] = e[2] /\ d[3] < e[3]

\* The strings read_csv turns into NaN (a part of its default list).
NaStrings == {"", "NA", "null", "NaN"}

\* A text column cell after to_csv and read_csv.
CsvText(cell) == IF cell = Null \/ Val(cell) \in NaStrings THEN Null ELSE cell

\* A numeric column cell after to_csv and read_csv.
CsvNumber(cell) == IF cell = Null THEN Null ELSE to_numeric(Some(IntText(Val(cell))))

\* A timestamp cell after to_csv, read_csv and pd.to_datetime.
CsvDate(cell) == IF cell = Null THEN Null ELSE to_datetime(Some(DateText(Val(cell))))

\* dict.get(key, default)
Get(d, key, default) == IF key \in DOMAIN d THEN d[key] ELSE default

\* No deduplication: the table as it is.
keep_duplicates(table, col) == table

\* drop_duplicates(subset=[col], keep='first')
drop_duplicates(table, col) ==
    LET keep == {i \in DOMAIN table : \A j \in 1..(i - 1) : table[j][col] # table[i][col]}
        idx == SelectSeq([i \in DOMAIN table |-> i], LAMBDA i : i \in keep)
    IN  [k \in DOMAIN idx |-> table[idx[k]]]

\* dropna(subset=['at', 'score'])
dropna_at_score(table) == SelectSeq(table, LAMBDA r : notna(r.at) /\ notna(r.score))

-----------------------------------------------------------------------------
(* Step 2: 2_data_transformation.py                                        *)

MaxReviews == 2

\* Raw app records of apps_metadata.json: a dict holds the keys it has.
AppAlpha ==
    [appId |-> Some("a"), title |-> Some("Alpha"),
     installs |-> Some(<<"1", ",", "0", "0", "0", "+">>)]

AppNoId == [title |-> Some("Nameless"), installs |-> Some(<<"5", "0", "+">>)]

AppBadInstalls == [appId |-> Some("b"), title |-> Some("Beta"), installs |-> Some(<<"a", "b", "c">>)]

RawAppLists == {<<AppAlpha>>, <<AppAlpha, AppBadInstalls, AppNoId>>, <<AppBadInstalls>>}

\* Raw review records of apps_reviews.jsonl.  Every key may be missing.
ReviewAppIdValues == {Some("a")}

ReviewIdValues == {Some("r1")}

ReviewScoreValues == {Some(<<"2">>), Some(<<"6">>)}

ReviewAtValues ==
    {Some(<<"2", "0", "2", "4", "-", "0", "1", "-", "0", "1">>),
     Some(<<"2", "0", "2", "4", "-", "1", "3", "-", "4", "5">>)}

\* A key that is absent, or present with one of its values.
Opt(key, values) == {[k \in {} |-> Null]} \cup {[k \in {key} |-> v] : v \in values}

RawReview ==
    {a @@ r @@ sc @@ t :
        a \in Opt("app_id", ReviewAppIdValues), r \in Opt("reviewId", ReviewIdValues),
        sc \in Opt("score", ReviewScoreValues), t \in Opt("at", ReviewAtValues)}

RawReviewLists == UNION {[1..n -> RawReview] : n \in 0..MaxReviews}

\* datetime.now(), at the resolution of a day.
Clock == {<<2026, 11, 3>>}

\* re.sub(r'[,+]', '', str(installs_str))
StripCommaPlus(t) == SelectSeq(t, LAMBDA ch : ch \notin {",", "+"})

\* re.sub(r'[^0-9.]', '', str(price_str))
StripNonPrice(t) == SelectSeq(t, LAMBDA ch : IsDigit(ch) \/ ch = ".")

\* int(text) succeeds on an optionally signed run of digits.
IntParses(t) == to_numeric(Some(t)) # Null

\* float(text) succeeds on digits with at most one dot and one digit at least.
FloatParses(t) ==
    /\ \E k \in DOMAIN t : IsDigit(t[k])
    /\ Cardinality({k \in DOMAIN t : t[k] = "."}) <= 1

\* No app is ever taken to raise.
NeverRaises(app) == FALSE

\* Lines 76-87: whether the try block of one app raises.
AppRaises(app) ==
    LET installs_str == Get(app, "installs", Some(<<"0">>))
        price_str == Get(app, "price", Some(<<"0">>))
    IN  \/ installs_str = Null
        \/ ~IntParses(StripCommaPlus(Val(installs_str)))
        \/ /\ price_str # Some(<<"0">>)
           /\ (price_str = Null \/ ~FloatParses(StripNonPrice(Val(price_str))))

\* Lines 76-106: the transformed app.
TransformApp(app) ==
    LET price_str == Get(app, "price", Some(<<"0">>))
        score == Get(app, "score", Null)
    IN  [appId |-> Get(app, "appId", Some("")),
         title |-> Get(app, "title", Some("Unknown")),
         developer |-> Get(app, "developer", Some("Unknown")),
         score |-> IF score = Null \/ score = Some(0) THEN Null ELSE score,
         ratings |-> Get(app, "ratings", Some(0)),
         installs |-> to_numeric(Some(StripCommaPlus(Val(Get(app, "installs", Some(<<"0">>)))))),
         genre |-> Get(app, "genre", Get(app, "genreId", Some("Unknown"))),
         price |-> IF price_str = Some(<<"0">>) THEN Some(<<"0", ".", "0">>)
                   ELSE Some(StripNonPrice(Val(price_str)))]

\* Lines 71-116: the apps whose try block completes, in input order.
TransformedApps(data) ==
    LET ok == SelectSeq(data, LAMBDA app : ~AppRaises(app))
    IN  [i \in DOMAIN ok |-> TransformApp(ok[i])]

\* Lines 64-127.  drop_duplicates returns an empty frame as it is, so the
\* function returns normally when no app was transformed.
transform_apps_data(data) ==
    [rows |-> drop_duplicates(TransformedApps(data), "appId"),
     errors |-> Cardinality({i \in DOMAIN data : AppRaises(data[i])})]

\* Lines 129-137.  A later record of the same appId overwrites an earlier one.
get_app_name_mapping(data) ==
    LET ids == {Val(Get(data[i], "appId", Some(""))) : i \in DOMAIN data} \ {""}
    IN  [id \in ids |->
           LET last == CHOOSE i \in DOMAIN data :
                         /\ Get(data[i], "appId", Some("")) = Some(id)
                         /\ \A j \in DOMAIN data :
                              Get(data[j], "appId", Some("")) = Some(id) => j <= i
           IN  Get(data[last], "title", Some("Unknown"))]

\* No membership test: every review is let through.
InAnyCatalog(app_id, valid_app_ids) == TRUE

\* Line 154: the membership test that lets a review through.
InCatalog(app_id, valid_app_ids) == app_id \in valid_app_ids

\* A JSON array where a text is expected: a value that cannot be hashed.
JsonList == "[list]"

\* Lines 151-154 and 202-203: the membership test raises TypeError on an
\* app_id that cannot be hashed, which except Exception catches.
ReviewRaises(review) == Get(review, "app_id", Some("")) = Some(JsonList)

\* Lines 153-156.
Skipped(review, valid_app_ids) ==
    /\ ~ReviewRaises(review)
    /\ ~InCatalog(Get(review, "app_id", Some("")), valid_app_ids)

\* Lines 163-169: the text kept for the timestamp.
AtStr(review, now) ==
    LET at_timestamp == Get(review, "at", Null)
    IN  IF at_timestamp # Null /\ Val(at_timestamp) # <<>> THEN at_timestamp
        ELSE Some(DateText(now))

\* Lines 177: the score, under its name or its alias, or the default 0.
ScoreOf(review) == Get(review, "score", Get(review, "rating", Some(<<"0">>)))

\* Lines 158-193: the transformed review.
TransformReview(review, app_name_mapping, now) ==
    LET app_id == Get(review, "app_id", Some(""))
    IN  [app_id |-> app_id,
         app_name |-> IF app_id # Null /\ Val(app_id) \in DOMAIN app_name_mapping
                      THEN app_name_mapping[Val(app_id)] ELSE Some("Unknown"),
         reviewId |-> Get(review, "reviewId", Some("")),
         userName |-> Get(review, "userName", Some("Anonymous")),
         score |-> ScoreOf(review),
         content |-> Get(review, "content", Some("")),
         thumbsUpCount |-> Get(review, "thumbsUpCount",
                               Get(review, "thumbsUp", Get(review, "helpfulCount", Some(<<"0">>)))),
         at |-> AtStr(review, now)]

\* Lines 146-195: the loop.
TransformedReviews(data, valid_app_ids, app_name_mapping, now) ==
    LET kept == SelectSeq(data, LAMBDA review :
                             ~ReviewRaises(review) /\ ~Skipped(review, valid_app_ids))
    IN  [i \in DOMAIN kept |-> TransformReview(kept[i], app_name_mapping, now)]

\* Lines 237-242: the conversions of the three typed columns.
ConvertTypes(row) ==
    [row EXCEPT !.score = to_numeric(row.score),
                !.thumbsUpCount = IF to_numeric(row.thumbsUpCount) = Null THEN Some(0)
                                  ELSE to_numeric(row.thumbsUpCount),
                !.at = to_datetime(row.at)]

\* Lines 139-255.
transform_reviews_data(data, valid_app_ids, app_name_mapping, now) ==
    LET transformed_reviews == TransformedReviews(data, valid_app_ids, app_name_mapping, now)
        deduped == drop_duplicates(transformed_reviews, "reviewId")
        typed == [i \in DOMAIN deduped |-> ConvertTypes(deduped[i])]
        cleaned == dropna_at_score(typed)
        skipped_count == Cardinality({i \in DOMAIN data : Skipped(data[i], valid_app_ids)})
        error_count == Cardinality({i \in DOMAIN data : ReviewRaises(data[i])})
    IN  IF transformed_reviews = <<>>
        THEN [rows |-> <<>>, skipped |-> skipped_count, errors |-> error_count,
              duplicates |-> 0, invalid |-> 0, reported |-> FALSE]
        ELSE [rows |-> cleaned, skipped |-> skipped_count, errors |-> error_count,
              duplicates |-> Len(transformed_reviews) - Len(cleaned),
              invalid |-> Len(deduped) - Len(cleaned), reported |-> TRUE]

-----------------------------------------------------------------------------
(* Step 3: 3_serving_layer.py                                              *)

\* app_id values in their sort order (groupby sorts the group keys).
ReviewAppOrder == <<"a", "b">>

\* Lines 13-17: one row of apps_reviews.csv as read_csv and to_datetime give it.
LoadReviewRow(row) ==
    [app_id |-> CsvText(row.app_id),
     app_name |-> CsvText(row.app_name),
     reviewId |-> CsvText(row.reviewId),
     userName |-> CsvText(row.userName),
     score |-> CsvNumber(row.score),
     content |-> CsvText(row.content),
     thumbsUpCount |-> CsvNumber(row.thumbsUpCount),
     at |-> CsvDate(row.at)]

\* Lines 9-22, for the reviews.
load_processed_data(written) == [i \in DOMAIN written |-> LoadReviewRow(written[i])]

\* 'count': the number of non-null cells of a column
CountCol(rows, col) == Cardinality({i \in DOMAIN rows : notna(rows[i][col])})

\* The sum of the non-null scores, and how many there are.
ScoreSum(rows) == SumSeq([i \in DOMAIN rows |-> IF notna(rows[i].score) THEN Val(rows[i].score) ELSE 0])

\* num / den rounded to an integer, halves to the even neighbour (round(2)
\* of a value held in hundredths).
RoundDiv(num, den) ==
    LET q == num \div den
        r == num % den
    IN  IF 2 * r < den THEN q
        ELSE IF 2 * r > den THEN q + 1
        ELSE IF q % 2 = 0 THEN q ELSE q + 1

\* 'mean' of the scores, rounded to 2 decimals, in hundredths; NaN for no score.
MeanScore(rows) ==
    IF CountCol(rows, "score") = 0 THEN Null
    ELSE Some(RoundDiv(100 * ScoreSum(rows), CountCol(rows, "score")))

\* The share of the scores below 2, in hundredths of a percent.
PctBelowTwo(rows) ==
    Some(RoundDiv(10000 * Cardinality({i \in DOMAIN rows :
                                         notna(rows[i].score) /\ Val(rows[i].score) < 2}),
                  Len(rows)))

\* (x <= 2).mean() * 100 rounded to 2 decimals, in hundredths of a percent.
PctLow(rows) ==
    Some(RoundDiv(10000 * Cardinality({i \in DOMAIN rows :
                                         notna(rows[i].score) /\ Val(rows[i].score) <= 2}),
                  Len(rows)))

MinDate(rows) ==
    LET ds == {rows[i].at : i \in DOMAIN rows} \ {Null}
    IN  IF ds = {} THEN Null
        ELSE CHOOSE d \in ds : \A e \in ds : ~DateBefore(Val(e), Val(d))

MaxDate(rows) ==
    LET ds == {rows[i].at : i \in DOMAIN rows} \ {Null}
    IN  IF ds = {} THEN Null
        ELSE CHOOSE d \in ds : \A e \in ds : ~DateBefore(Val(d), Val(e))

\* Lines 32-50: the aggregate row of one app_id group.
AppKpiRow(id, rows) ==
    [app_id |-> Some(id),
     num_reviews |-> CountCol(rows, "reviewId"),
     avg_rating |-> MeanScore(rows),
     pct_low_rating |-> PctLow(rows),
     first_review_date |-> MinDate(rows),
     most_recent_review_date |-> MaxDate(rows)]

\* Line 53: sort_values('num_reviews', ascending=False) with the default
\* kind='quicksort', which is not a stable sort: every order of the rows
\* that is descending in num_reviews can come out.
QuickSortedByReviews(table) ==
    LET orders == {f \in [DOMAIN table -> DOMAIN table] :
                     /\ \A i, j \in DOMAIN table : f[i] = f[j] => i = j
                     /\ \A i, j \in DOMAIN table :
                            i < j => table[f[i]].num_reviews >= table[f[j]].num_reviews}
    IN  {[i \in DOMAIN table |-> table[f[i]]] : f \in orders}

\* Lines 24-61: the tables the function can return.  groupby('app_id')
\* leaves out the rows whose app_id is null.
create_app_level_kpis(reviews) ==
    LET keys == SelectSeq(ReviewAppOrder,
                          LAMBDA id : \E i \in DOMAIN reviews : reviews[i].app_id = Some(id))
        grouped == [k \in DOMAIN keys |->
                      AppKpiRow(keys[k], SelectSeq(reviews, LAMBDA r : r.app_id = Some(keys[k])))]
    IN  QuickSortedByReviews(grouped)

\* The dates of a set, ascending.
RECURSIVE SortedDates(_)
SortedDates(ds) ==
    IF ds = {} THEN <<>>
    ELSE LET first == CHOOSE d \in ds : \A e \in ds : ~DateBefore(e, d)
         IN  <<first>> \o SortedDates(ds \ {first})

\* Line 71: the date column create_daily_metrics adds to the frame it is given.
WithDate(row) ==
    [c \in DOMAIN row \cup {"date"} |-> IF c = "date" THEN row.at ELSE row[c]]

\* Lines 74-86.  groupby('date') leaves out the rows whose date is null.
create_daily_metrics(reviews) ==
    LET dates == SortedDates({Val(reviews[i].at) : i \in {j \in DOMAIN reviews : notna(reviews[j].at)}})
    IN  [k \in DOMAIN dates |->
           LET rows == SelectSeq(reviews, LAMBDA r : r.at = Some(dates[k]))
           IN  [date |-> dates[k],
                daily_num_reviews |-> CountCol(rows, "reviewId"),
                daily_avg_rating |-> MeanScore(rows)]]

-----------------------------------------------------------------------------
(* The pipeline of step 2 and step 3                                       *)

NoSummary ==
    [rows |-> <<>>, skipped |-> 0, errors |-> 0, duplicates |-> 0, invalid |-> 0,
     reported |-> FALSE]

NoFiles == [apps_catalog |-> <<>>, apps_reviews |-> <<>>]

PipelineIdle ==
    /\ apps_data = <<>>
    /\ reviews_data = <<>>
    /\ df_apps = <<>>
    /\ df_reviews = <<>>
    /\ summary = NoSummary
    /\ apps_errors = 0
    /\ files = NoFiles
    /\ served = <<>>
    /\ app_kpis = <<>>
    /\ daily_metrics = <<>>

\* The raw store as step 1 left it.
InitPipeline ==
    /\ pc = "s2_start"
    /\ apps_data \in RawAppLists
    /\ reviews_data \in RawReviewLists
    /\ transform_apps_data(apps_data).rows = <<>> => Len(reviews_data) <= 1
    /\ df_apps = <<>>
    /\ df_reviews = <<>>
    /\ summary = NoSummary
    /\ apps_errors = 0
    /\ files = NoFiles
    /\ served = <<>>
    /\ app_kpis = <<>>
    /\ daily_metrics = <<>>
    /\ ReconcileIdle
    /\ existing_apps = <<>>
    /\ existing_reviews = <<>>
    /\ new_batch = <<>>
    /\ updated_reviews = <<>>
    /\ rebuild_counts = [rows |-> <<>>, combined |-> 0, duplicates |-> 0, unknown |-> 0]
    /\ GateIdle

\* 2_data_transformation.py main, lines 283-322.
TransformMain ==
    /\ pc = "s2_start"
    /\ apps_errors' = transform_apps_data(apps_data).errors
    /\ LET a == transform_apps_data(apps_data)
       IN  IF a.rows = <<>>
           THEN \* line 298: the frame built from no record has no appId column
                /\ df_apps' = a.rows
                /\ pc' = "s2_failed"
                /\ UNCHANGED <<df_reviews, summary, files>>
           ELSE \E now \in Clock :
                  LET valid_app_ids == {a.rows[i].appId : i \in DOMAIN a.rows}
                      res == transform_reviews_data(reviews_data, valid_app_ids,
                                                    get_app_name_mapping(apps_data), now)
                  IN  /\ df_apps' = a.rows
                      /\ summary' = res
                      /\ df_reviews' = summary'.rows
                      /\ files' = [apps_catalog |-> df_apps', apps_reviews |-> df_reviews']
                      /\ pc' = "s2_done"
    /\ UNCHANGED <<apps_data, reviews_data, served, app_kpis, daily_metrics, reconcileVars,
                   rebuildVars, gateVars>>

\* 3_serving_layer.py main, lines 139-158.  display_insights reads the first
\* row of app_kpis (line 116, app_kpis.iloc[0]): on a table of no app it
\* raises IndexError and the script ends with a non-zero exit code.
ServingMain ==
    /\ pc = "s2_done"
    /\ LET loaded == load_processed_data(files.apps_reviews)
       IN  /\ app_kpis' \in create_app_level_kpis(loaded)
           /\ daily_metrics' = create_daily_metrics(loaded)
           /\ served' = [i \in DOMAIN loaded |-> WithDate(loaded[i])]
    /\ pc' = IF app_kpis' = <<>> THEN "s3_failed" ELSE "s3_done"
    /\ UNCHANGED <<apps_data, reviews_data, df_apps, df_reviews, summary, apps_errors, files,
                   reconcileVars, rebuildVars, gateVars>>

NextPipeline == TransformMain \/ ServingMain

SpecPipeline == InitPipeline /\ [][NextPipeline]_vars

\* Step 2 and step 3 on batches that hold duplicated and failing app
\* records and failing and orphan review records.
MaxApps == 2

AppAlphaRated ==
    [appId |-> Some("a"), title |-> Some("Alpha 2"), score |-> Some(45), ratings |-> Some(500),
     installs |-> Some(<<"1", ",", "0", "0", "0", ",", "0", "0", "0", "+">>)]

AppPlusInside == [appId |-> Some("c"), title |-> Some("Gamma"), installs |-> Some(<<"1", "+", "0">>)]

RawApps == {AppAlpha, AppAlphaRated, AppBadInstalls, AppPlusInside}

RawAppBatches == UNION {[1..n -> RawApps] : n \in 1..MaxApps}

ReviewGood ==
    [app_id |-> Some("a"), reviewId |-> Some("r1"), score |-> Some(<<"4">>),
     at |-> Some(<<"2", "0", "2", "4", "-", "0", "1", "-", "0", "1">>)]

ReviewUnhashable ==
    [app_id |-> Some(JsonList), reviewId |-> Some("r2"), score |-> Some(<<"5">>),
     at |-> Some(<<"2", "0", "2", "4", "-", "0", "1", "-", "0", "2">>)]

ReviewOrphan ==
    [app_id |-> Some("zz"), reviewId |-> Some("r3"), score |-> Some(<<"1">>),
     at |-> Some(<<"2", "0", "2", "4", "-", "0", "1", "-", "0", "3">>)]

RawReviewBatches ==
    UNION {[1..n -> {ReviewGood, ReviewUnhashable, ReviewOrphan}] : n \in 0..MaxReviews}

InitCatalog ==
    /\ pc = "s2_start"
    /\ apps_data \in RawAppBatches
    /\ reviews_data \in RawReviewBatches
    /\ df_apps = <<>>
    /\ df_reviews = <<>>
    /\ summary = NoSummary
    /\ apps_errors = 0
    /\ files = NoFiles
    /\ served = <<>>
    /\ app_kpis = <<>>
    /\ daily_metrics = <<>>
    /\ ReconcileIdle
    /\ existing_apps = <<>>
    /\ existing_reviews = <<>>
    /\ new_batch = <<>>
    /\ updated_reviews = <<>>
    /\ rebuild_counts = [rows |-> <<>>, combined |-> 0, duplicates |-> 0, unknown |-> 0]
    /\ GateIdle

SpecCatalog == InitCatalog /\ [][NextPipeline]_vars

-----------------------------------------------------------------------------
(* Scenario 1: scenario1_new_batch.py                                      *)

MaxBatch == 2

Day1Text == <<"2", "0", "2", "4", "-", "0", "1", "-", "0", "1">>

\* apps_catalog.csv as read back: the appId column ('' was written for the
\* app without an appId, and is read as NaN).
CatalogTables == {<<[appId |-> Some("a")]>>, <<[appId |-> Some("a")], [appId |-> Null]>>}

\* apps_reviews.csv as read back, on the columns scenario 1 reads.
ExistingReviewTables ==
    {<<>>,
     <<[app_id |-> Some("a"), reviewId |-> Some("r1"), score |-> Some(<<"4">>),
        at |-> Some(Day1Text)]>>}

\* One row of the new batch file.
BatchRow ==
    [app_id : {Some("a"), Some("b"), Null},
     reviewId : {Some("r1"), Some("r2")},
     score : {Some(<<"5">>), Some(<<"b", "a", "d">>)},
     at : {Some(Day1Text), Some(<<"s", "o", "o", "n">>)}]

BatchTables == UNION {[1..n -> BatchRow] : n \in 1..MaxBatch}

\* Line 85: analyze_batch converts the at column of the batch in place; a
\* timestamp is kept here as the text to_datetime reads back unchanged.
AnalyzedRow(row) ==
    [row EXCEPT !.at = IF to_datetime(row.at) = Null THEN Null
                       ELSE Some(DateText(Val(to_datetime(row.at))))]

\* Line 119: isin(known_apps); a NaN app_id matches a NaN appId.
IsIn(cell, known_apps) == cell \in known_apps

\* Lines 122-124.
RebuildTypes(row) == [row EXCEPT !.at = to_datetime(row.at), !.score = to_numeric(row.score)]

\* Lines 92-129.
process_new_batch_full_rebuild(batch, reviews, catalog) ==
    LET all_reviews == reviews \o batch
        deduped == drop_duplicates(all_reviews, "reviewId")
        known_apps == {catalog[i].appId : i \in DOMAIN catalog}
        filtered == SelectSeq(deduped, LAMBDA r : IsIn(r.app_id, known_apps))
        typed == [i \in DOMAIN filtered |-> RebuildTypes(filtered[i])]
    IN  [rows |-> dropna_at_score(typed),
         combined |-> Len(all_reviews),
         duplicates |-> Len(all_reviews) - Len(deduped),
         unknown |-> Len(deduped) - Len(filtered)]

NoCounts == [rows |-> <<>>, combined |-> 0, duplicates |-> 0, unknown |-> 0]

RebuildIdle ==
    /\ existing_apps = <<>>
    /\ existing_reviews = <<>>
    /\ new_batch = <<>>
    /\ updated_reviews = <<>>
    /\ rebuild_counts = NoCounts

InitRebuild ==
    /\ pc = "s1_loaded"
    /\ existing_apps \in CatalogTables
    /\ existing_reviews \in ExistingReviewTables
    /\ new_batch \in BatchTables
    /\ updated_reviews = <<>>
    /\ rebuild_counts = NoCounts
    /\ ReconcileIdle
    /\ PipelineIdle
    /\ GateIdle

\* scenario1_new_batch.py main, lines 222-231: analyze_batch, the full
\* rebuild and rebuild_serving_layer (the aggregation of step 3 again).
Scenario1Main ==
    /\ pc = "s1_loaded"
    /\ new_batch' = [i \in DOMAIN new_batch |-> AnalyzedRow(new_batch[i])]
    /\ rebuild_counts' = process_new_batch_full_rebuild(new_batch', existing_reviews, existing_apps)
    /\ updated_reviews' = [i \in DOMAIN rebuild_counts'.rows |-> WithDate(rebuild_counts'.rows[i])]
    /\ app_kpis' \in create_app_level_kpis(rebuild_counts'.rows)
    /\ daily_metrics' = create_daily_metrics(rebuild_counts'.rows)
    /\ pc' = "s1_done"
    /\ UNCHANGED <<existing_apps, existing_reviews, reconcileVars, apps_data, reviews_data,
                   df_apps, df_reviews, summary, apps_errors, files, served, gateVars>>

NextRebuild == Scenario1Main

SpecRebuild == InitRebuild /\ [][NextRebuild]_vars

\* Step 2, step 3 and scenario 1 side by side: the two places where reviews
\* are matched against the app catalog.
InitReferential == InitPipeline \/ InitRebuild

NextReferential == NextPipeline \/ NextRebuild

SpecReferential == InitReferential /\ [][NextReferential]_vars


\* Step 3 on its own, on the processed store a run of step 2 can leave, and
\* the rebuild of scenario 1: the two places that aggregate reviews.
MaxServed == 3

ReviewIdNames == <<"r1", "r2", "r3", "r4", "r5">>

\* What varies in a processed review: its app, its score and its day.
ProcessedCore ==
    [app_id : {Some("a")},
     score : {Some(1), Some(2), Some(5)},
     at : {Some(<<2024, 1, 1>>), Some(<<2024, 1, 2>>)}]
    \cup {[app_id |-> Some("b"), score |-> Some(5), at |-> Some(<<2024, 1, 2>>)]}

\* A row of apps_reviews.csv as step 2 writes it; reviewIds are distinct.
ProcessedRow(core, i) ==
    [app_id |-> core.app_id, app_name |-> Some("App"), reviewId |-> Some(ReviewIdNames[i]),
     userName |-> Some("u"), score |-> core.score, content |-> Some("ok"),
     thumbsUpCount |-> Some(0), at |-> core.at]

ProcessedTables ==
    UNION {{[i \in 1..n |-> ProcessedRow(cores[i], i)] : cores \in [1..n -> ProcessedCore]} :
             n \in 1..MaxServed}

InitServing ==
    /\ pc = "s2_done"
    /\ apps_data = <<>>
    /\ reviews_data = <<>>
    /\ df_apps = <<>>
    /\ df_reviews = <<>>
    /\ summary = NoSummary
    /\ apps_errors = 0
    /\ \E table \in ProcessedTables : files = [apps_catalog |-> <<>>, apps_reviews |-> table]
    /\ served = <<>>
    /\ app_kpis = <<>>
    /\ daily_metrics = <<>>
    /\ ReconcileIdle
    /\ RebuildIdle
    /\ GateIdle

InitAggregates == InitServing \/ InitRebuild

NextAggregates == ServingMain \/ Scenario1Main

SpecAggregates == InitAggregates /\ [][NextAggregates]_vars

-----------------------------------------------------------------------------
(* Scenario 3: the quality gate (scenario3_dirty_data.py)                  *)

MaxDirtyRows == 2

\* One row of note_taking_ai_reviews_dirty.csv, read with dtype=str: every
\* cell is a text or NaN.
DirtyRow ==
    [score : {Null, Some(<<"a", "b", "c">>), Some(<<"3">>), Some(<<"6">>)},
     at : {Some(Day1Text), Some(<<"s", "o", "o", "n">>)},
     thumbsUpCount : {Some(<<"-", "3">>), Some(<<"2">>)},
     content : {Null, Some("ok")},
     userName : {Null, Some("u")}]

DirtyTables == UNION {[1..n -> DirtyRow] : n \in 1..MaxDirtyRows}

\* Lines 100-102: process_without_validation adds three converted columns to
\* dirty_data itself.
WithConvertedColumns(row) ==
    [score_num |-> to_numeric(row.score),
     thumbsUpCount_num |-> to_numeric(row.thumbsUpCount),
     at_dt |-> to_datetime(row.at)] @@ row

\* Lines 133-135.
GateTypes(row) ==
    [row EXCEPT !.score = to_numeric(row.score),
                !.thumbsUpCount = to_numeric(row.thumbsUpCount),
                !.at = to_datetime(row.at)]

\* Line 147, without the upper limit.
OutOfRangeBelow(score) == Val(score) < 1

\* Line 147.
OutOfRange(score) == Val(score) < 1 \/ Val(score) > 5

\* No repair: the converted cell as it is.
KeepThumbs(cell) == cell

\* Lines 163-164.
FixThumbs(cell) == IF cell = Null \/ Val(cell) < 0 THEN Some(0) ELSE cell

\* Lines 163-170.
Repair(row) ==
    [row EXCEPT !.thumbsUpCount = FixThumbs(row.thumbsUpCount),
                !.content = IF row.content = Null THEN Some("") ELSE row.content,
                !.userName = IF row.userName = Null THEN Some("Anonymous")
                             ELSE row.userName]

\* Lines 122-179.
process_with_validation(data) ==
    LET typed == [i \in DOMAIN data |-> GateTypes(data[i])]
        scored == SelectSeq(typed, LAMBDA r : notna(r.score))
        ranged == SelectSeq(scored, LAMBDA r : ~OutOfRange(r.score))
        dated == SelectSeq(ranged, LAMBDA r : notna(r.at))
    IN  [i \in DOMAIN dated |-> Repair(dated[i])]

\* Lines 217-239.
create_data_quality_report(data, clean) ==
    [total_records |-> Len(data),
     clean_records |-> Len(clean),
     rejected_records |-> Len(data) - Len(clean),
     invalid_scores |-> Cardinality({i \in DOMAIN data : to_numeric(data[i].score) = Null}),
     invalid_dates |-> Cardinality({i \in DOMAIN data : to_datetime(data[i].at) = Null}),
     missing_content |-> Cardinality({i \in DOMAIN data : data[i].content = Null}),
     negative_thumbs |-> Cardinality({i \in DOMAIN data :
                            /\ notna(to_numeric(data[i].thumbsUpCount))
                            /\ Val(to_numeric(data[i].thumbsUpCount)) < 0})]

InitGate ==
    /\ pc = "s3d_loaded"
    /\ dirty_data \in DirtyTables
    /\ clean_data = <<>>
    /\ report = NoReport
    /\ DriftIdle
    /\ HostIdle
    /\ ReconcileIdle
    /\ PipelineIdle
    /\ RebuildIdle

\* scenario3_dirty_data.py main, lines 241-268.
Scenario3Main ==
    /\ pc = "s3d_loaded"
    /\ dirty_data' = [i \in DOMAIN dirty_data |-> WithConvertedColumns(dirty_data[i])]
    /\ clean_data' = process_with_validation(dirty_data')
    /\ report' = create_data_quality_report(dirty_data', clean_data')
    /\ pc' = "s3d_done"
    /\ UNCHANGED <<reconcileVars, pipelineVars, rebuildVars, driftVars, hostVars>>

NextGate == Scenario3Main

SpecGate == InitGate /\ [][NextGate]_vars

\* The same script on batches whose repairable fields take every kind of
\* value: negative, unparseable and missing counters, missing texts.
RepairRow ==
    [score : {Some(<<"3">>), Some(<<"6">>)},
     at : {Some(Day1Text)},
     thumbsUpCount : {Null, Some(<<"-", "3">>), Some(<<"2">>), Some(<<"m", "a", "n", "y">>)},
     content : {Null, Some("ok")},
     userName : {Null, Some("u")}]

RepairTables == UNION {[1..n -> RepairRow] : n \in 1..MaxDirtyRows}

InitRepair ==
    /\ pc = "s3d_loaded"
    /\ dirty_data \in RepairTables
    /\ clean_data = <<>>
    /\ report = NoReport
    /\ DriftIdle
    /\ HostIdle
    /\ ReconcileIdle
    /\ PipelineIdle
    /\ RebuildIdle

SpecRepair == InitRepair /\ [][NextGate]_vars


-----------------------------------------------------------------------------
(* Scenario 2: scenario2_schema_drift.py                                   *)

MaxDriftRows == 2

\* Lines 45-48: expected_schema.
expected_schema ==
    <<"app_id", "app_name", "reviewId", "userName", "score", "content", "thumbsUpCount", "at">>

\* Lines 70-76: the alternatives of each expected column, in their order.
AlternativeNames ==
    [score |-> <<"rating", "user_rating", "stars">>,
     thumbsUpCount |-> <<"helpful_count", "likes", "thumbs_up">>,
     userName |-> <<"user_name", "author", "reviewer">>,
     reviewId |-> <<"review_id", "id">>,
     at |-> <<"date", "timestamp", "review_date">>]

\* The last alternative the frame has.
LastAlternative(alternatives, actual_schema) ==
    LET present == {k \in DOMAIN alternatives : alternatives[k] \in actual_schema}
    IN  IF present = {} THEN Null
        ELSE Some(alternatives[CHOOSE k \in present : \A l \in present : l <= k])

\* Lines 81-87: the first alternative the frame has, in the order of the list.
FirstAlternative(alternatives, actual_schema) ==
    LET present == {k \in DOMAIN alternatives : alternatives[k] \in actual_schema}
    IN  IF present = {} THEN Null
        ELSE Some(alternatives[CHOOSE k \in present : \A l \in present : k <= l])

\* Lines 39-91: found_mappings.
detect_schema_differences(frame) ==
    LET actual_schema == frame.columns
        found == {expected \in DOMAIN AlternativeNames :
                     /\ expected \notin actual_schema
                     /\ FirstAlternative(AlternativeNames[expected], actual_schema) # Null}
    IN  [expected \in found |-> Val(FirstAlternative(AlternativeNames[expected], actual_schema))]

\* Lines 129-138.
default_schema == [c \in Range(expected_schema) |-> c]

\* Every column that has alternatives is read under its first alternative.
alternative_schema_mapper(found) ==
    [standard \in DOMAIN default_schema |->
        IF standard \in DOMAIN AlternativeNames THEN AlternativeNames[standard][1]
        ELSE default_schema[standard]]

\* Lines 124-150: {**default_schema, **mappings}.
create_schema_mapper(found) ==
    [standard \in (DOMAIN default_schema) \cup (DOMAIN found) |->
        IF standard \in DOMAIN found THEN found[standard] ELSE default_schema[standard]]

\* pd.to_datetime(column, errors='coerce'): a datetime column is returned as
\* it is, the cells of any other column are parsed.
ToDatetimeColumn(dtype, cell) == IF dtype = "datetime64" THEN cell ELSE to_datetime(cell)

\* pd.to_numeric(column, errors='coerce'): a numeric column is returned as
\* it is, the cells of any other column are parsed.
ToNumericColumn(dtype, cell) == IF dtype = "float64" THEN cell ELSE to_numeric(cell)

\* .fillna(0)
fillna_zero(cell) == IF cell = Null THEN Some(0) ELSE cell

\* Lines 152-177.
transform_with_mapper(frame, mapper) ==
    LET found(standard_name) == mapper[standard_name] \in frame.columns
        dtype(standard_name) ==
            IF found(standard_name) THEN frame.dtypes[mapper[standard_name]] ELSE "object"
        copied == [i \in DOMAIN frame.rows |->
                      [standard_name \in DOMAIN mapper |->
                          IF found(standard_name) THEN frame.rows[i][mapper[standard_name]]
                          ELSE Null]]
        typed == [i \in DOMAIN copied |->
                     [copied[i] EXCEPT
                         !.at = ToDatetimeColumn(dtype("at"), @),
                         !.score = ToNumericColumn(dtype("score"), @),
                         !.thumbsUpCount = fillna_zero(ToNumericColumn(dtype("thumbsUpCount"), @))]]
    IN  [columns |-> DOMAIN mapper,
         dtypes |-> [standard_name \in DOMAIN mapper |->
                        IF standard_name = "at" THEN "datetime64"
                        ELSE IF standard_name \in {"score", "thumbsUpCount"} THEN "float64"
                        ELSE dtype(standard_name)],
         rows |-> dropna_at_score(typed)]

\* The rows of note_taking_ai_reviews_schema_drift.csv: what each column
\* holds when the file has it.  Every column holds a different value, so
\* that the column a value was read from can be told.
DriftRowA ==
    [app_id |-> Some("a"), reviewId |-> Some("r1"),
     score |-> Some(<<"5">>), rating |-> Some(<<"4">>), stars |-> Some(<<"3">>),
     at |-> Some(<<"2", "0", "2", "4", "-", "0", "1", "-", "0", "1">>),
     date |-> Some(<<"2", "0", "2", "4", "-", "0", "1", "-", "0", "2">>),
     thumbsUpCount |-> Some(<<"2">>), likes |-> Some(<<"7">>)]

DriftRowB ==
    [app_id |-> Some("a"), reviewId |-> Some("r2"),
     score |-> Some(<<"a", "b", "c">>), rating |-> Some(<<"2">>), stars |-> Some(<<"1">>),
     at |-> Some(<<"s", "o", "o", "n">>),
     date |-> Some(<<"2", "0", "2", "4", "-", "0", "1", "-", "0", "3">>),
     thumbsUpCount |-> Null, likes |-> Some(<<"m", "a", "n", "y">>)]

\* The columns a drift file always has, and those it may have.
FixedColumns == {"app_id", "reviewId"}

DriftingColumns == {"score", "rating", "stars", "at", "date", "thumbsUpCount", "likes"}

\* Lines 15-37: the frame read_csv gives, its cells still texts.
LoadedFrame(columns, rows) ==
    [columns |-> columns,
     dtypes |-> [c \in columns |-> "object"],
     rows |-> [i \in DOMAIN rows |-> [c \in columns |-> rows[i][c]]]]

LoadedFrames ==
    {LoadedFrame(FixedColumns \cup drifting, rows) :
        drifting \in SUBSET DriftingColumns,
        rows \in UNION {[1..n -> {DriftRowA, DriftRowB}] : n \in 1..MaxDriftRows}}

\* The frames a run of the scenario returns.
NormalizedFrames ==
    {transform_with_mapper(frame, create_schema_mapper(detect_schema_differences(frame))) :
        frame \in LoadedFrames}

\* The scenario is run on a drift file or on what a run returned.
InitDrift ==
    /\ pc = "s2d_loaded"
    /\ drift_data \in LoadedFrames \cup NormalizedFrames
    /\ mappings = <<>>
    /\ schema_map = <<>>
    /\ transformed = NoDriftFrame
    /\ dirty_data = <<>>
    /\ clean_data = <<>>
    /\ report = NoReport
    /\ HostIdle
    /\ ReconcileIdle
    /\ PipelineIdle
    /\ RebuildIdle

\* main, line 215.
DetectSchemaDifferences ==
    /\ pc = "s2d_loaded"
    /\ mappings' = detect_schema_differences(drift_data)
    /\ pc' = "s2d_detected"
    /\ UNCHANGED <<drift_data, schema_map, transformed, dirty_data, clean_data, report,
                   hostVars, reconcileVars, pipelineVars, rebuildVars>>

\* main, lines 218-221: run_old_pipeline only reads the frame.
CreateSchemaMapper ==
    /\ pc = "s2d_detected"
    /\ schema_map' = create_schema_mapper(mappings)
    /\ pc' = "s2d_mapped"
    /\ UNCHANGED <<drift_data, mappings, transformed, dirty_data, clean_data, report,
                   hostVars, reconcileVars, pipelineVars, rebuildVars>>

\* main, lines 224-227.
TransformWithMapper ==
    /\ pc = "s2d_mapped"
    /\ transformed' = transform_with_mapper(drift_data, schema_map)
    /\ pc' = "s2d_transformed"
    /\ UNCHANGED <<drift_data, mappings, schema_map, dirty_data, clean_data, report,
                   hostVars, reconcileVars, pipelineVars, rebuildVars>>

NextDrift == DetectSchemaDifferences \/ CreateSchemaMapper \/ TransformWithMapper

SpecDrift == InitDrift /\ [][NextDrift]_vars

-----------------------------------------------------------------------------
(* Reviews under other field names: step 2 and scenario 2                  *)

MaxAliased == 1

\* The keys a raw review may bear for its score and its thumbs-up count
\* (2_data_transformation.py lines 177 and 180-182), each with its own value.
AliasedKeys == {"score", "rating", "thumbsUpCount", "thumbsUp", "helpfulCount"}

AliasedValue ==
    [score |-> <<"5">>, rating |-> <<"4">>, thumbsUpCount |-> <<"1">>, thumbsUp |-> <<"2">>,
     helpfulCount |-> <<"3">>]

\* The n-th record of apps_reviews.jsonl, with the given keys.
AliasedReview(keys, n) ==
    [k \in keys \cup {"app_id", "reviewId", "at"} |->
        IF k = "app_id" THEN Some("a")
        ELSE IF k = "reviewId" THEN Some(ReviewIdNames[n])
        ELSE IF k = "at" THEN Some(<<"2", "0", "2", "4", "-", "0", "1", "-", "0", "1">>)
        ELSE Some(AliasedValue[k])]

AliasedBatches ==
    UNION {{[j \in 1..n |-> AliasedReview(ks[j], j)] : ks \in [1..n -> SUBSET AliasedKeys]} :
              n \in 1..MaxAliased}

InitAliased ==
    /\ pc = "s2_start"
    /\ apps_data = <<AppAlpha>>
    /\ reviews_data \in AliasedBatches
    /\ df_apps = <<>>
    /\ df_reviews = <<>>
    /\ summary = NoSummary
    /\ apps_errors = 0
    /\ files = NoFiles
    /\ served = <<>>
    /\ app_kpis = <<>>
    /\ daily_metrics = <<>>
    /\ ReconcileIdle
    /\ existing_apps = <<>>
    /\ existing_reviews = <<>>
    /\ new_batch = <<>>
    /\ updated_reviews = <<>>
    /\ rebuild_counts = [rows |-> <<>>, combined |-> 0, duplicates |-> 0, unknown |-> 0]
    /\ GateIdle

\* Either script is run on its input.
InitAliases == InitAliased \/ InitDrift

NextAliases == TransformMain \/ ServingMain \/ NextDrift

SpecAliases == InitAliases /\ [][NextAliases]_vars

-----------------------------------------------------------------------------
(* Step 1: 1_data_ingestion.py                                             *)

MaxFound == 2

\* Lines 253-257: the number of apps a run is limited to.
AppLimit == 15

\* The app ids the store knows.
StoreIds == {"a", "b", "c"}

\* Lines 23-64: list(app_ids), a set put in a list: any order, no id twice,
\* and no id at all when every search failed or found nothing.
FoundLists ==
    {ids \in UNION {[1..n -> StoreIds] : n \in 0..MaxFound} :
        \A i, j \in DOMAIN ids : i # j => ids[i] # ids[j]}

\* What app() returns for an app id.
AppDetails(id) ==
    [appId |-> Some(id), title |-> Some("App"),
     installs |-> Some(<<"1", ",", "0", "0", "0", "+">>)]

\* The reviewId of the one review the store has of an app.
ReviewIdOf(id) == IF id = "a" THEN "r1" ELSE IF id = "b" THEN "r2" ELSE "r3"

\* What reviews() returns for an app id that has reviews; line 138 adds app_id.
TaggedReviews(id) ==
    <<[reviewId |-> Some(ReviewIdOf(id)), score |-> Some(<<"4">>),
       at |-> Some(<<"2", "0", "2", "4", "-", "0", "1", "-", "0", "1">>),
       app_id |-> Some(id)]>>

\* What the store answers to a call: app() returns or raises, reviews()
\* returns reviews, returns none, or raises.
MetadataAnswers == {"ok", "raises"}

ReviewAnswers == {"some", "none", "raises"}

\* The loop ends at the first call that raises.
AttemptedUntilFailure(ids, answers) ==
    LET failed == {i \in DOMAIN ids : answers[ids[i]] = "raises"}
    IN  IF failed = {} THEN ids
        ELSE SubSeq(ids, 1, CHOOSE i \in failed : \A j \in failed : i <= j)

\* Lines 77-102 and 122-156: the except clause is inside the loop, so the
\* loop goes through the whole list.
Attempted(ids, answers) == ids

\* The calls of one loop, in their order.
CallsOf(call, ids, answers) ==
    LET tried == Attempted(ids, answers)
    IN  [i \in DOMAIN tried |-> [call |-> call, app_id |-> tried[i], answer |-> answers[tried[i]]]]

\* Lines 66-105.
extract_app_metadata(ids, answers) ==
    LET tried == Attempted(ids, answers)
        fetched == SelectSeq(tried, LAMBDA id : answers[id] = "ok")
    IN  [data |-> [k \in DOMAIN fetched |-> AppDetails(fetched[k])],
         log |-> CallsOf("app", ids, answers)]

\* Lines 107-163.
RECURSIVE ExtendAll(_)
ExtendAll(lists) == IF lists = <<>> THEN <<>> ELSE Head(lists) \o ExtendAll(Tail(lists))

extract_app_reviews(ids, answers) ==
    LET tried == Attempted(ids, answers)
        fetched == SelectSeq(tried, LAMBDA id : answers[id] = "some")
    IN  [data |-> ExtendAll([k \in DOMAIN fetched |-> TaggedReviews(fetched[k])]),
         log |-> CallsOf("reviews", ids, answers)]

\* A fresh data/raw: step 1 has not yet run.
InitIngestion ==
    /\ pc = "ing_start"
    /\ app_ids \in FoundLists
    /\ raw_files = ScenarioFiles
    /\ fetch_log = <<>>
    /\ driver = "idle"
    /\ step = 0
    /\ results = <<>>
    /\ dirty_data = <<>>
    /\ clean_data = <<>>
    /\ report = NoReport
    /\ DriftIdle
    /\ ReconcileIdle
    /\ PipelineIdle
    /\ RebuildIdle

\* 1_data_ingestion.py main, lines 238-303.  Both early returns leave the
\* script with exit code 0.
IngestionMain ==
    /\ pc = "ing_start"
    /\ LET ids == SubSeq(app_ids, 1, IF Len(app_ids) > AppLimit THEN AppLimit ELSE Len(app_ids))
       IN  IF app_ids = <<>>
           THEN /\ pc' = "ing_returned"
                /\ UNCHANGED <<apps_data, reviews_data, fetch_log>>
           ELSE \E metadata \in [Range(ids) -> MetadataAnswers] :
                  LET apps_part == extract_app_metadata(ids, metadata)
                  IN  IF apps_part.data = <<>>
                      THEN /\ pc' = "ing_returned"
                           /\ fetch_log' = apps_part.log
                           /\ UNCHANGED <<apps_data, reviews_data>>
                      ELSE \E answers \in [Range(ids) -> ReviewAnswers] :
                             LET reviews_part == extract_app_reviews(ids, answers)
                             IN  /\ apps_data' = apps_part.data
                                 /\ reviews_data' = reviews_part.data
                                 /\ fetch_log' = apps_part.log \o reviews_part.log
                                 /\ pc' = "ing_done"
    /\ UNCHANGED <<app_ids, raw_files, driver, step, results, df_apps, df_reviews, summary,
                   apps_errors, files, served, app_kpis, daily_metrics, dirty_data,
                   clean_data, report, driftVars, reconcileVars, rebuildVars>>

NextIngestion == IngestionMain

SpecIngestion == InitIngestion /\ [][NextIngestion]_vars

-----------------------------------------------------------------------------
(* The driver: run_pipeline.py                                             *)

\* Lines 94-99: steps.
steps ==
    <<"Step 1: Data Ingestion", "Step 2: Data Transformation", "Step 3: Serving Layer",
      "Step 4: Dashboard">>

\* Where the script of a step begins and the positions it can end at.
EntryOf(k) ==
    IF k = 1 THEN "ing_start" ELSE IF k = 2 THEN "s2_start" ELSE IF k = 3 THEN "s2_done"
    ELSE "dash_start"

EndsOf(k) ==
    IF k = 1 THEN {"ing_done", "ing_returned"}
    ELSE IF k = 2 THEN {"s2_done", "s2_failed"}
    ELSE IF k = 3 THEN {"s3_done", "s3_failed"}
    ELSE {"dash_done", "dash_failed"}

\* The exit code of a script: 0 when main returned, 1 when it raised.
ExitCode(position) == IF position \in {"s2_failed", "s3_failed", "dash_failed"} THEN 1 ELSE 0

\* The scripts are about to be run on a fresh checkout.
InitDriver ==
    /\ pc = "idle"
    /\ driver = "prompt"
    /\ step = 1
    /\ results = <<>>
    /\ app_ids \in FoundLists
    /\ raw_files = ScenarioFiles
    /\ fetch_log = <<>>
    /\ dirty_data = <<>>
    /\ clean_data = <<>>
    /\ report = NoReport
    /\ DriftIdle
    /\ ReconcileIdle
    /\ PipelineIdle
    /\ RebuildIdle

\* Lines 84-91: the operator answers the prompt.
DriverPrompt ==
    /\ driver = "prompt"
    /\ \E response \in {"y", "n"} :
           driver' = IF response = "y" THEN "ready" ELSE "cancelled"
    /\ UNCHANGED <<pc, raw_files, app_ids, fetch_log, step, results, dirty_data, clean_data,
                   report, driftVars, reconcileVars, pipelineVars, rebuildVars>>

\* Lines 43-57 and 103-104: run_step starts the script of the step.
DriverStart ==
    /\ driver = "ready"
    /\ driver' = "running"
    /\ pc' = EntryOf(step)
    /\ UNCHANGED <<raw_files, app_ids, fetch_log, step, results, dirty_data, clean_data,
                   report, driftVars, reconcileVars, pipelineVars, rebuildVars>>

\* The script of the step at hand runs as a subprocess.
StageIngestion == driver = "running" /\ step = 1 /\ IngestionMain

StageTransformation == driver = "running" /\ step = 2 /\ TransformMain

StageServing == driver = "running" /\ step = 3 /\ ServingMain

\* 4_dashboard.py main: the charts are drawn from the files of step 3 and
\* written as HTML; the script returns or raises.
StageDashboard ==
    /\ driver = "running" /\ step = 4
    /\ pc = "dash_start"
    /\ pc' \in {"dash_done", "dash_failed"}
    /\ UNCHANGED <<hostVars, dirty_data, clean_data, report, driftVars, reconcileVars,
                   pipelineVars, rebuildVars>>

\* The loop goes on to the next step whatever the step returned.
GoesOnRegardless(success, k) == k < Len(steps)

\* Lines 103-113: the loop goes on to the next step unless the step failed
\* (break) or was the last one.
GoesOn(success, k) == success /\ k < Len(steps)

\* Lines 59-73 and 105-113: run_step returns whether the exit code was 0,
\* main records it and stops at a failure or after the last step.
DriverCollect ==
    /\ driver = "running"
    /\ pc \in EndsOf(step)
    /\ LET success == ExitCode(pc) = 0
       IN  /\ results' = Append(results, <<steps[step], success>>)
           /\ IF GoesOn(success, step)
              THEN driver' = "ready" /\ step' = step + 1
              ELSE driver' = "summary" /\ step' = step
    /\ UNCHANGED <<pc, raw_files, app_ids, fetch_log, dirty_data, clean_data, report,
                   driftVars, reconcileVars, pipelineVars, rebuildVars>>

NextDriver ==
    \/ DriverPrompt
    \/ DriverStart
    \/ StageIngestion
    \/ StageTransformation
    \/ StageServing
    \/ StageDashboard
    \/ DriverCollect

SpecDriver == InitDriver /\ [][NextDriver]_vars

-----------------------------------------------------------------------------
(* The entry of scenarios 2, 3 and 4: the input file may be absent         *)

\* The file is taken to be there.
exists_always(file, present) == TRUE

\* os.path.exists(file)
exists(file, present) == file \in present

\* One-row contents of the three input files.
DriftFileContents ==
    {LoadedFrame(FixedColumns \cup drifting, <<DriftRowA>>) : drifting \in SUBSET DriftingColumns}

DirtyFileContents == [1..1 -> DirtyRow]

UpdatedAppsFileContents == [1..1 -> AppRow]

\* A scenario script is started, with any of the input files there or not.
InitEntry ==
    /\ pc \in {"s2d_start", "s3d_start", "s4_start"}
    /\ raw_files \in SUBSET ScenarioFiles
    /\ app_ids = <<>>
    /\ fetch_log = <<>>
    /\ driver = "idle"
    /\ step = 0
    /\ results = <<>>
    /\ dirty_data = <<>>
    /\ clean_data = <<>>
    /\ report = NoReport
    /\ DriftIdle
    /\ apps = <<>>
    /\ applied = <<>>
    /\ apps_smart = NoFrame
    /\ JoinIdle
    /\ PipelineIdle
    /\ RebuildIdle

\* scenario2_schema_drift.py lines 15-37 and main lines 209-212.
LoadSchemaDriftData ==
    /\ pc = "s2d_start"
    /\ IF exists(DriftFile, raw_files)
       THEN /\ drift_data' \in DriftFileContents
            /\ pc' = "s2d_loaded"
       ELSE /\ pc' = "s2d_aborted"
            /\ UNCHANGED drift_data
    /\ UNCHANGED <<mappings, schema_map, transformed, dirty_data, clean_data, report,
                   hostVars, reconcileVars, pipelineVars, rebuildVars>>

\* scenario3_dirty_data.py lines 16-31 and main lines 247-250.
LoadDirtyData ==
    /\ pc = "s3d_start"
    /\ IF exists(DirtyFile, raw_files)
       THEN /\ dirty_data' \in DirtyFileContents
            /\ pc' = "s3d_loaded"
       ELSE /\ pc' = "s3d_aborted"
            /\ UNCHANGED dirty_data
    /\ UNCHANGED <<clean_data, report, driftVars, hostVars, reconcileVars, pipelineVars,
                   rebuildVars>>

\* scenario4_updated_apps.py lines 15-34 and main lines 251-254.
LoadUpdatedApps ==
    /\ pc = "s4_start"
    /\ IF exists(UpdatedAppsFile, raw_files)
       THEN /\ apps' \in UpdatedAppsFileContents
            /\ pc' = "s4_loaded"
       ELSE /\ pc' = "s4_aborted"
            /\ UNCHANGED apps
    /\ UNCHANGED <<applied, apps_smart, joinVars, pipelineVars, rebuildVars, gateVars>>

NextEntry ==
    \/ LoadSchemaDriftData
    \/ LoadDirtyData
    \/ LoadUpdatedApps
    \/ NextDrift
    \/ NextGate
    \/ HandleDuplicatesSmart

SpecEntry == InitEntry /\ [][NextEntry]_vars

-----------------------------------------------------------------------------
(* Scenario 4: the joins and the referential integrity report              *)

MaxJoinReviews == 2

\* The app tables of the join test.
JoinAppRow ==
    [appId : {Some(a) : a \in AppIds},
     title : {Some("A")},
     score : {Null, Some(42)},
     ratings : {Some(500)}]

JoinAppTables == UNION {[1..n -> JoinAppRow] : n \in 1..MaxRows}

\* One row of apps_reviews.csv: the app_id may be one of the catalog, an
\* unknown one or missing.
JoinReviewRow == [app_id : {Null, Some("x"), Some("y"), Some("z")}, score : {Some(4)}]

JoinReviewTables == UNION {[1..n -> JoinReviewRow] : n \in 0..MaxJoinReviews}

\* One row of the merge result: the score columns get the suffixes _x and _y.
JoinedRow(review, app) ==
    [app_id |-> review.app_id, score_x |-> review.score, appId |-> app.appId,
     title |-> app.title, score_y |-> app.score, ratings |-> app.ratings]

NoMatch == [appId |-> Null, title |-> Null, score |-> Null, ratings |-> Null]

\* The rows a left merge gives for one review.
MatchesOf(review, table) ==
    LET found == SelectSeq(table, LAMBDA app : app.appId = review.app_id)
    IN  IF found = <<>> THEN <<JoinedRow(review, NoMatch)>>
        ELSE [k \in DOMAIN found |-> JoinedRow(review, found[k])]

\* reviews.merge(table, left_on='app_id', right_on='appId', how='left')
merge(left, table) == Concat([i \in DOMAIN left |-> MatchesOf(left[i], table)])

\* Line 189: whether some appId occurs twice.
HasDuplicate(table) == \E i, j \in DOMAIN table : i < j /\ table[i].appId = table[j].appId

InitJoin ==
    /\ pc = "s4_loaded"
    /\ apps \in JoinAppTables
    /\ applied = <<>>
    /\ apps_smart = NoFrame
    /\ s4_reviews \in JoinReviewTables
    /\ joined_dups = <<>>
    /\ joined_clean = <<>>
    /\ integrity = NoIntegrity
    /\ PipelineIdle
    /\ RebuildIdle
    /\ GateIdle

\* Lines 165-205.  Line 189 takes the first duplicated appId with iloc[0],
\* which raises IndexError when no appId is duplicated.
TestJoinImpact ==
    /\ pc = "s4_resolved"
    /\ joined_dups' = merge(s4_reviews, apps)
    /\ IF HasDuplicate(apps)
       THEN /\ joined_clean' = merge(s4_reviews, drop_duplicates(apps, "appId"))
            /\ pc' = "s4_joined"
       ELSE /\ joined_clean' = joined_clean
            /\ pc' = "s4_failed"
    /\ UNCHANGED <<apps, applied, apps_smart, s4_reviews, integrity, pipelineVars, rebuildVars,
                   gateVars>>

\* No subtraction: the first set as it is.
KeepLeft(a, b) == a

\* Lines 224-225: the difference of two sets of ids.
Minus(a, b) == a \ b

\* Lines 207-235, called with apps_smart.  A Series has no 'appId' label, so
\* line 221 raises KeyError on it.
CreateReferentialIntegrityReport ==
    /\ pc = "s4_joined"
    /\ IF apps_smart.kind = "DataFrame"
       THEN LET app_ids_in_catalog == {apps_smart.rows[i].appId : i \in DOMAIN apps_smart.rows}
                app_ids_in_reviews == {s4_reviews[i].app_id : i \in DOMAIN s4_reviews}
                orphan_reviews == Minus(app_ids_in_reviews, app_ids_in_catalog)
            IN  /\ integrity' =
                     [app_ids_in_catalog |-> app_ids_in_catalog,
                      app_ids_in_reviews |-> app_ids_in_reviews,
                      orphan_reviews |-> orphan_reviews,
                      unused_apps |-> Minus(app_ids_in_catalog, app_ids_in_reviews),
                      count |-> Cardinality({i \in DOMAIN s4_reviews :
                                               s4_reviews[i].app_id \in orphan_reviews})]
                /\ pc' = "s4_reported"
       ELSE /\ integrity' = integrity
            /\ pc' = "s4_failed"
    /\ UNCHANGED <<apps, applied, apps_smart, s4_reviews, joined_dups, joined_clean, pipelineVars,
                   rebuildVars, gateVars>>

NextJoin == HandleDuplicatesSmart \/ TestJoinImpact \/ CreateReferentialIntegrityReport

SpecJoin == InitJoin /\ [][NextJoin]_vars

-----------------------------------------------------------------------------
(* Claims about the reconciler                                             *)

\* A returned row cut back to the columns of the input table.
InputColumns(row) == [c \in AppColumns |-> row[c]]

\* The ranking of the specification, written on the input row alone:
\* (score is non-null, ratings, number of non-null fields).
RankKey(row) ==
    <<IF notna(row.score) THEN 1 ELSE 0,
      IF notna(row.ratings) THEN Val(row.ratings) ELSE -1,
      CountNotna(row)>>

LexGreater(k, l) ==
    \/ k[1] > l[1]
    \/ k[1] = l[1] /\ k[2] > l[2]
    \/ k[1] = l[1] /\ k[2] = l[2] /\ k[3] > l[3]

\* The orders in which n rows can be given, for every table length.
AllRowOrders ==
    [n \in 0..MaxRows |->
       {f \in [1..n -> 1..n] : \A i, j \in 1..n : f[i] = f[j] => i = j}]

RowOrders(n) == AllRowOrders[n]

Permuted(table, f) == [i \in DOMAIN table |-> table[f[i]]]

\* C1: the output of handle_duplicates_smart holds exactly one record for
\* every distinct appId of the input: the output is a table of records, no
\* appId occurs in two of its rows and every input appId occurs in one.
C1_OneRecordPerAppId ==
    pc = "s4_resolved" =>
        /\ apps_smart.kind = "DataFrame"
        /\ \A i \in DOMAIN apps :
             Cardinality({k \in DOMAIN apps_smart.rows :
                            apps_smart.rows[k].appId = apps[i].appId}) = 1
        /\ \A k \in DOMAIN apps_smart.rows :
             \E i \in DOMAIN apps : apps[i].appId = apps_smart.rows[k].appId

\* C2: for every appId with several input records, the record that
\* pick_best_record keeps is one of the group's records and no record of
\* the group ranks above it under (score non-null, ratings, non-null
\* fields) compared lexicographically.
C2_KeptIsMaximum ==
    pc = "s4_resolved" =>
        \A i \in DOMAIN applied :
            LET group == GroupOf(apps, GroupKeys(apps)[i])
                kept == InputColumns(applied[i])
            IN  Len(group) > 1 =>
                  /\ \E j \in DOMAIN group : group[j] = kept
                  /\ \A j \in DOMAIN group :
                       ~LexGreater(RankKey(group[j]), RankKey(kept))

\* C2 witness: the specification's example, rows (x, null score, 0 ratings,
\* title A) and (x, 4.2, 500, title B); the second row is the survivor.
C2_Witness ==
    /\ pc = "s4_resolved"
    /\ apps = <<[appId |-> Some("x"), title |-> Some("A"), score |-> Null,
                 ratings |-> Some(0)],
                [appId |-> Some("x"), title |-> Some("B"), score |-> Some(42),
                 ratings |-> Some(500)]>>
    /\ Len(applied) = 1
    /\ InputColumns(applied[1]) = apps[2]
    /\ apps_smart.kind = "DataFrame"
    /\ Len(apps_smart.rows) = 1

\* The top-ranked records of a group.
TopRanked(group) ==
    {j \in DOMAIN group :
       \A k \in DOMAIN group : ~LexGreater(RankKey(group[k]), RankKey(group[j]))}

\* The record kept for appId id when the table is given in the order f.
KeptFor(table, id) == InputColumns(pick_best_record(GroupOf(table, id)))

\* C3 as stated: whatever the order of the input rows, the surviving record
\* of every appId has the same field values.
C3_OrderIndependent ==
    pc = "s4_resolved" =>
        \A f \in RowOrders(Len(apps)) :
            \A i \in DOMAIN applied :
                KeptFor(Permuted(apps, f), GroupKeys(apps)[i]) = InputColumns(applied[i])

\* C3 amended: the surviving record of an appId is the same for every order
\* of the input rows whenever the top-ranked records of that appId all have
\* the same field values.
C3_OrderIndependentWithoutTies ==
    pc = "s4_resolved" =>
        \A f \in RowOrders(Len(apps)) :
            \A i \in DOMAIN applied :
                LET group == GroupOf(apps, GroupKeys(apps)[i])
                IN  (\A j, k \in TopRanked(group) : group[j] = group[k]) =>
                      KeptFor(Permuted(apps, f), GroupKeys(apps)[i])
                        = InputColumns(applied[i])

\* C3 witness: a resolved group of three different records with a single
\* top-ranked one that is not the first row.
C3_Witness ==
    /\ pc = "s4_resolved"
    /\ Len(applied) = 1
    /\ Len(apps) = 3
    /\ \A j, k \in DOMAIN apps : j # k => apps[j] # apps[k]
    /\ TopRanked(apps) = {3}
    /\ InputColumns(applied[1]) = apps[3]

\* C4: when several records of an appId are equal on all three ranking
\* keys, the earliest of them in input order is the one kept (if any of
\* them is): the kept record is the first row of its group that has the
\* kept record's ranking key.
C4_TieKeepsFirst ==
    pc = "s4_resolved" =>
        \A i \in DOMAIN applied :
            LET group == GroupOf(apps, GroupKeys(apps)[i])
                kept == InputColumns(applied[i])
                tied == {j \in DOMAIN group : RankKey(group[j]) = RankKey(kept)}
            IN  Len(group) > 1 =>
                  /\ tied # {}
                  /\ kept = group[CHOOSE j \in tied : \A k \in tied : j <= k]

\* C4 witness: two records tied on all three keys, with different titles,
\* rank above a third one, and the first of the two is kept.
C4_Witness ==
    /\ pc = "s4_resolved"
    /\ Len(applied) = 1
    /\ Len(apps) = 3
    /\ TopRanked(apps) = {2, 3}
    /\ apps[2] # apps[3]
    /\ InputColumns(applied[1]) = apps[2]

-----------------------------------------------------------------------------
(* Claims about the transformation and the serving layer                   *)

Transformed == pc \in {"s2_done", "s3_done", "s3_failed"}

\* The raw records a transformed review can come from: those with its
\* app_id and reviewId.
SourcesOf(row) ==
    {j \in DOMAIN reviews_data :
       /\ Get(reviews_data[j], "app_id", Some("")) = row.app_id
       /\ Get(reviews_data[j], "reviewId", Some("")) = row.reviewId}

\* C5: every review the transformation step outputs, and the serving layer
\* loads, has a score within [1,5] that a raw record of that review carries;
\* no review gets a placeholder score.
C5_ScorePresentAndInRange ==
    /\ Transformed =>
         \A i \in DOMAIN df_reviews :
             /\ notna(df_reviews[i].score)
             /\ Val(df_reviews[i].score) \in 1..5
             /\ \E j \in SourcesOf(df_reviews[i]) :
                    /\ "score" \in DOMAIN reviews_data[j]
                    /\ to_numeric(reviews_data[j].score) = df_reviews[i].score
    /\ pc = "s3_done" =>
         \A i \in DOMAIN served :
             notna(served[i].score) /\ Val(served[i].score) \in 1..5

\* C6: every review the transformation step outputs has the timestamp that
\* a raw record of that review carries and that parses; a review without a
\* parseable timestamp is left out and never gets the current time.
C6_TimestampFromRecord ==
    Transformed =>
        \A i \in DOMAIN df_reviews :
            /\ notna(df_reviews[i].at)
            /\ \E j \in SourcesOf(df_reviews[i]) :
                   /\ "at" \in DOMAIN reviews_data[j]
                   /\ to_datetime(reviews_data[j].at) = df_reviews[i].at

\* The appId cells of a catalog table.
CatalogIds(catalog) == {catalog[k].appId : k \in DOMAIN catalog}

C10_AggregateConservation ==
    pc = "s3_done" =>
        /\ SumSeq([k \in DOMAIN app_kpis |-> app_kpis[k].num_reviews]) = Len(files.apps_reviews)
        /\ SumSeq([k \in DOMAIN daily_metrics |-> daily_metrics[k].daily_num_reviews])
             = Len(files.apps_reviews)
        /\ Len(served) = Len(files.apps_reviews)

-----------------------------------------------------------------------------
(* Claims about the quality gate                                           *)

\* A review whose score parses to a number within [1,5] and whose timestamp
\* parses.
Acceptable(row) ==
    /\ notna(to_numeric(row.score))
    /\ Val(to_numeric(row.score)) \in 1..5
    /\ notna(to_datetime(row.at))

C9_ReportAddsUp ==
    pc = "s3d_done" =>
        /\ report.clean_records + report.invalid_scores + report.invalid_dates
             = report.total_records
        /\ report.invalid_scores + report.invalid_dates = report.rejected_records

-----------------------------------------------------------------------------
(* Claims about the apps catalog of the transformation step                *)

\* The raw app records that were transformed and carry the appId of a
\* catalog row.
CandidatesOf(row) ==
    {j \in DOMAIN apps_data :
       /\ ~AppRaises(apps_data[j])
       /\ Get(apps_data[j], "appId", Some("")) = row.appId}

\* C11: when several raw app records share an appId, the record kept in the
\* apps catalog is the best under the quality ranking (non-null score, then
\* ratings, then completeness): no transformed record of the same appId
\* ranks above it.
C11_CatalogKeepsBestRanked ==
    Transformed =>
        \A i \in DOMAIN df_apps :
            \A j \in CandidatesOf(df_apps[i]) :
                ~LexGreater(RankKey(TransformApp(apps_data[j])), RankKey(df_apps[i]))

\* The position in the accepted output of the i-th input review, when it
\* is acceptable.
AcceptedUpTo(i) == Cardinality({j \in 1..i : Acceptable(dirty_data[j])})

\* C12: repair never rejects.  Every review with a valid score and
\* timestamp is in the accepted output whatever its thumbsUpCount, content
\* and userName are; there its thumbsUpCount is its parsed value when that
\* is 0 or more and 0 otherwise, its content is its own or the empty string,
\* its userName is non-null, and its score and timestamp are the parsed
\* ones.
C12_RepairNeverRejects ==
    pc = "s3d_done" =>
        /\ Len(clean_data) = AcceptedUpTo(Len(dirty_data))
        /\ \A i \in DOMAIN dirty_data :
               Acceptable(dirty_data[i]) =>
                   LET out == clean_data[AcceptedUpTo(i)]
                       thumbs == to_numeric(dirty_data[i].thumbsUpCount)
                   IN  /\ notna(out.thumbsUpCount)
                       /\ Val(out.thumbsUpCount) >= 0
                       /\ out.thumbsUpCount =
                            IF notna(thumbs) /\ Val(thumbs) >= 0 THEN thumbs ELSE Some(0)
                       /\ out.content =
                            IF notna(dirty_data[i].content) THEN dirty_data[i].content
                            ELSE Some("")
                       /\ notna(out.userName)
                       /\ notna(dirty_data[i].userName) => out.userName = dirty_data[i].userName
                       /\ out.score = to_numeric(dirty_data[i].score)
                       /\ out.at = to_datetime(dirty_data[i].at)

\* C12 witness: a batch whose first review is valid with a negative counter
\* and no content and whose second is valid with an unparseable counter and
\* no userName, both accepted.
C12_Witness ==
    /\ pc = "s3d_done"
    /\ Len(dirty_data) = 2
    /\ Len(clean_data) = 2
    /\ dirty_data[1].thumbsUpCount = Some(<<"-", "3">>)
    /\ dirty_data[1].content = Null
    /\ dirty_data[2].thumbsUpCount = Some(<<"m", "a", "n", "y">>)
    /\ dirty_data[2].userName = Null
    /\ clean_data[1].thumbsUpCount = Some(0)
    /\ clean_data[2].userName = Some("Anonymous")

-----------------------------------------------------------------------------
(* Claims about the joins and the referential integrity report             *)

\* The number of app records of a table that carry the app_id of a review.
Multiplicity(review, table) ==
    Cardinality({k \in DOMAIN table : table[k].appId = review.app_id})

\* The number of rows a left join owes to the reviews of one app_id.
RowsOwed(id, table) ==
    SumSeq([i \in DOMAIN s4_reviews |->
              IF s4_reviews[i].app_id # id THEN 0
              ELSE IF Multiplicity(s4_reviews[i], table) = 0 THEN 1
              ELSE Multiplicity(s4_reviews[i], table)])

ReviewAppIdsOf(table) == {table[i].app_id : i \in DOMAIN table}

\* C13: the left join of the reviews against the deduplicated app set has
\* exactly one row per review, in review order; the left join against the
\* app set as loaded has, for each review, as many rows as there are app
\* records with its app_id, and one row when there is none.
C13_JoinMultiplicity ==
    /\ pc \in {"s4_joined", "s4_reported"} =>
         /\ Len(joined_clean) = Len(s4_reviews)
         /\ \A i \in DOMAIN joined_clean :
                /\ joined_clean[i].app_id = s4_reviews[i].app_id
                /\ joined_clean[i].appId \in {Null, s4_reviews[i].app_id}
    /\ pc \in {"s4_joined", "s4_reported", "s4_failed"} =>
         /\ ReviewAppIdsOf(joined_dups) = ReviewAppIdsOf(s4_reviews)
         /\ \A id \in ReviewAppIdsOf(s4_reviews) :
                Cardinality({k \in DOMAIN joined_dups : joined_dups[k].app_id = id})
                  = RowsOwed(id, apps)

\* C13 witness: two reviews of an app that has two records, joined into
\* four rows against the apps as loaded and into two against the
\* deduplicated apps.
C13_Witness ==
    /\ pc = "s4_joined"
    /\ Len(s4_reviews) = 2
    /\ Len(joined_dups) = 4
    /\ Len(joined_clean) = 2

\* The figures of the report against the reconciled catalog and the reviews.
IntegrityReportExact ==
    pc = "s4_reported" =>
        LET catalog == {apps_smart.rows[i].appId : i \in DOMAIN apps_smart.rows}
        IN  /\ \A id \in ReviewAppIdsOf(s4_reviews) :
                   id \in integrity.orphan_reviews <=> id \notin catalog
            /\ integrity.orphan_reviews \subseteq ReviewAppIdsOf(s4_reviews)
            /\ \A id \in catalog :
                   id \in integrity.unused_apps
                     <=> ~\E i \in DOMAIN s4_reviews : s4_reviews[i].app_id = id
            /\ integrity.unused_apps \subseteq catalog
            /\ integrity.count =
                 Cardinality({i \in DOMAIN s4_reviews : s4_reviews[i].app_id \notin catalog})
            /\ integrity.orphan_reviews \cap integrity.unused_apps = {}

\* C16: the referential integrity report has as orphan set exactly the
\* app_id values present in the reviews and absent from the reconciled
\* catalog, as unused set exactly the catalog appIds that no review has,
\* and as affected count the number of reviews whose app_id is an orphan;
\* the two sets are disjoint and the check leaves the reconciled apps and
\* the reviews as they were.
C16_IntegrityReport ==
    /\ []IntegrityReportExact
    /\ [][pc = "s4_joined" =>
            apps' = apps /\ apps_smart' = apps_smart /\ s4_reviews' = s4_reviews]_vars

\* C16 witness: a report with an orphan app_id that two reviews carry and
\* with an unused app.
C16_Witness ==
    /\ pc = "s4_reported"
    /\ integrity.orphan_reviews # {}
    /\ integrity.unused_apps # {}
    /\ integrity.count = 2

-----------------------------------------------------------------------------
(* Claims about the aggregates                                             *)

Aggregated == pc \in {"s3_done", "s1_done"}

\* The reviews the aggregates were computed from.
AggregatedReviews == IF pc = "s1_done" THEN updated_reviews ELSE served

\* The scores of the reviews of one app_id.
GroupScores(id) ==
    LET rows == SelectSeq(AggregatedReviews, LAMBDA r : r.app_id = id)
    IN  [i \in DOMAIN rows |-> Val(rows[i].score)]

Abs(x) == IF x < 0 THEN 0 - x ELSE x

\* h hundredths is num / den rounded to the hundredth.
IsRounded(h, num, den) == 2 * Abs(h * den - 100 * num) <= den

\* C14: for every app_id group given to create_app_level_kpis or to
\* rebuild_serving_layer, avg_rating is the arithmetic mean of the group's
\* scores and pct_low_rating is 100 x (reviews of the group with score <= 2)
\* / (reviews of the group), each rounded to two decimals; pct_low_rating
\* is within [0,100] and avg_rating within [min score, max score] of the
\* group.
C14_KpiValues ==
    Aggregated =>
        \A k \in DOMAIN app_kpis :
            LET scores == GroupScores(app_kpis[k].app_id)
                low == Cardinality({i \in DOMAIN scores : scores[i] <= 2})
                avg == Val(app_kpis[k].avg_rating)
                pct == Val(app_kpis[k].pct_low_rating)
            IN  /\ Len(scores) > 0
                /\ IsRounded(avg, SumSeq(scores), Len(scores))
                /\ IsRounded(pct, 100 * low, Len(scores))
                /\ pct >= 0 /\ pct <= 10000
                /\ \E i \in DOMAIN scores : 100 * scores[i] <= avg
                /\ \E i \in DOMAIN scores : 100 * scores[i] >= avg

\* C14 witness: an app with three reviews of scores 1, 2 and 5, whose mean
\* 2.67 and share of low ratings 66.67 are not whole numbers.
C14_Witness ==
    /\ pc = "s3_done"
    /\ \E k \in DOMAIN app_kpis :
           /\ Len(GroupScores(app_kpis[k].app_id)) = 3
           /\ app_kpis[k].avg_rating = Some(267)
           /\ app_kpis[k].pct_low_rating = Some(6667)

\* The place of an app_id among the group keys, which groupby sorts.
GroupPlace(id) == CHOOSE p \in DOMAIN ReviewAppOrder : Some(ReviewAppOrder[p]) = id

\* C15: the AppKPI output has one row per app_id, ordered by num_reviews
\* descending, rows of equal num_reviews staying in their group order; the
\* DailyMetric output has one row per calendar date, ordered by date
\* ascending.
C15_OutputOrder ==
    Aggregated =>
        /\ {app_kpis[k].app_id : k \in DOMAIN app_kpis}
             = {AggregatedReviews[i].app_id : i \in DOMAIN AggregatedReviews} \ {Null}
        /\ \A k, l \in DOMAIN app_kpis :
               k < l =>
                   /\ app_kpis[k].app_id # app_kpis[l].app_id
                   /\ app_kpis[k].num_reviews >= app_kpis[l].num_reviews
                   /\ app_kpis[k].num_reviews = app_kpis[l].num_reviews
                        => GroupPlace(app_kpis[k].app_id) < GroupPlace(app_kpis[l].app_id)
        /\ {Some(daily_metrics[k].date) : k \in DOMAIN daily_metrics}
             = {AggregatedReviews[i].at : i \in DOMAIN AggregatedReviews} \ {Null}
        /\ \A k, l \in DOMAIN daily_metrics :
               k < l => DateBefore(daily_metrics[k].date, daily_metrics[l].date)

-----------------------------------------------------------------------------
(* Claims about coercion in the transformation step                        *)

\* The transformation step has run, to its end or to the failure of main.
TransformRan == pc \in {"s2_done", "s3_done", "s3_failed", "s2_failed"}

\* The raw installs text of an app record, '0' when it has none.
InstallsText(app) == Val(Get(app, "installs", Some(<<"0">>)))

\* An app record coerces when int() reads its installs without commas and
\* plus signs; a review record coerces when its app_id can be looked up.
AppCoerces(app) ==
    LET t == SelectSeq(InstallsText(app), LAMBDA ch : ch # "," /\ ch # "+")
    IN  t # <<>> /\ \A k \in DOMAIN t : t[k] \in Range(DigitChars)

ReviewCoerces(review) == Get(review, "app_id", Some("")) # Some(JsonList)

CommasAndTrailingPlusRemoved(t) ==
    LET u == SelectSeq(t, LAMBDA ch : ch # ",")
    IN  IF u # <<>> /\ u[Len(u)] = "+" THEN SubSeq(u, 1, Len(u) - 1) ELSE u

InstallsResidue(app) == CommasAndTrailingPlusRemoved(InstallsText(app))

\* C18: the installs of an output app is the integer read from the raw text
\* without its commas and its trailing '+'; an app whose text still holds a
\* non-digit character after that removal is a coercion failure: it is
\* counted, and no output row and no integer is produced for it.
C18_InstallsNormalised ==
    TransformRan =>
        /\ apps_errors
             = Cardinality({j \in DOMAIN apps_data : ~AllDigits(InstallsResidue(apps_data[j]))})
        /\ \A i \in DOMAIN df_apps :
               \E j \in DOMAIN apps_data :
                   /\ AllDigits(InstallsResidue(apps_data[j]))
                   /\ df_apps[i].appId = apps_data[j].appId
                   /\ df_apps[i].title = apps_data[j].title
                   /\ df_apps[i].installs = Some(NatOf(InstallsResidue(apps_data[j])))


-----------------------------------------------------------------------------
(* Claims about the schema mapper                                          *)

\* No column of the frame is named by an alternative of an expected column.
UsesCanonicalNames ==
    \A expected \in DOMAIN AlternativeNames :
        \A k \in DOMAIN AlternativeNames[expected] :
            AlternativeNames[expected][k] \notin drift_data.columns

\* C20: normalization is idempotent.  On a frame that uses the canonical
\* column names detect_schema_differences finds no mapping and
\* create_schema_mapper gives the identity mapping; on the frame a previous
\* transform_with_mapper returned, transform_with_mapper returns the same frame.
C20_NormalizationIdempotent ==
    /\ pc \in {"s2d_detected", "s2d_mapped", "s2d_transformed"} /\ UsesCanonicalNames
           => mappings = <<>>
    /\ pc \in {"s2d_mapped", "s2d_transformed"} /\ UsesCanonicalNames
           => schema_map = [c \in Range(expected_schema) |-> c]
    /\ pc = "s2d_transformed" /\ drift_data \in NormalizedFrames
           => transformed = drift_data

\* C20 witness: a frame of two rows that a previous run returned has been
\* transformed again.
C20_Witness ==
    /\ pc = "s2d_transformed"
    /\ drift_data \in NormalizedFrames
    /\ Len(drift_data.rows) = 2
    /\ Len(transformed.rows) = 2


\* The names probed for a canonical review field, the canonical name first:
\* by step 2 for a raw record, by scenario 2 for the columns of a frame.
RecordProbes ==
    [score |-> <<"score", "rating">>,
     thumbsUpCount |-> <<"thumbsUpCount", "thumbsUp", "helpfulCount">>]

ColumnProbes ==
    [score |-> <<"score", "rating", "user_rating", "stars">>,
     thumbsUpCount |-> <<"thumbsUpCount", "helpful_count", "likes", "thumbs_up">>,
     userName |-> <<"userName", "user_name", "author", "reviewer">>,
     reviewId |-> <<"reviewId", "review_id", "id">>,
     at |-> <<"at", "date", "timestamp", "review_date">>]

\* The places of the probed names the input has.
PresentAt(names, present) == {k \in DOMAIN names : names[k] \in present}

\* The value read by priority: that of the first probed name the input has,
\* the default when it has none.
ByPriority(source, names, default) ==
    LET here == PresentAt(names, DOMAIN source)
    IN  IF here = {} THEN default
        ELSE source[names[CHOOSE k \in here : \A l \in here : k <= l]]

\* The raw review a transformed review was made from.
RawOf(row) == CHOOSE j \in DOMAIN reviews_data : reviews_data[j].reviewId = row.reviewId

\* One row of the drift frame read by priority and converted.
ColumnsByPriority(source) ==
    [score |-> to_numeric(ByPriority(source, ColumnProbes.score, Null)),
     thumbsUpCount |-> fillna_zero(to_numeric(ByPriority(source, ColumnProbes.thumbsUpCount, Null))),
     reviewId |-> ByPriority(source, ColumnProbes.reviewId, Null),
     userName |-> ByPriority(source, ColumnProbes.userName, Null),
     at |-> to_datetime(ByPriority(source, ColumnProbes.at, Null))]

\* C19: alias resolution follows the priority order.  The value of a
\* canonical review field is read under the canonical name when the input
\* has it, otherwise under the first name of the field's alias list that the
\* input has; the default (step 2) or null (scenario 2) is used only when the
\* input has none of the names, and a later alias never wins over an earlier
\* one.
C19_AliasPriority ==
    /\ Transformed /\ reviews_data \in AliasedBatches =>
         /\ Len(df_reviews) = Len(reviews_data)
         /\ \A i \in DOMAIN df_reviews :
                LET raw == reviews_data[RawOf(df_reviews[i])]
                IN  /\ df_reviews[i].score
                         = to_numeric(ByPriority(raw, RecordProbes.score, Some(<<"0">>)))
                    /\ df_reviews[i].thumbsUpCount
                         = to_numeric(ByPriority(raw, RecordProbes.thumbsUpCount, Some(<<"0">>)))
    /\ pc = "s2d_transformed" /\ drift_data \in LoadedFrames =>
         LET read == [i \in DOMAIN drift_data.rows |-> ColumnsByPriority(drift_data.rows[i])]
             kept == SelectSeq(read, LAMBDA r : notna(r.at) /\ notna(r.score))
         IN  /\ Len(transformed.rows) = Len(kept)
             /\ \A i \in DOMAIN kept :
                    \A field \in DOMAIN ColumnProbes :
                        transformed.rows[i][field] = kept[i][field]

\* C19 witness: a raw review that has the alias 'rating' and no 'score', both
\* 'thumbsUp' and 'helpfulCount' and no 'thumbsUpCount', was transformed.
C19_Witness ==
    /\ Transformed
    /\ \E j \in DOMAIN reviews_data :
           /\ DOMAIN reviews_data[j] \cap AliasedKeys = {"rating", "thumbsUp", "helpfulCount"}
           /\ \E i \in DOMAIN df_reviews :
                  /\ df_reviews[i].reviewId = reviews_data[j].reviewId
                  /\ df_reviews[i].score = Some(4)
                  /\ df_reviews[i].thumbsUpCount = Some(2)

\* A drift frame with the columns 'rating' and 'stars' and no 'score' was
\* transformed, and its first row read under 'rating'.
C19_ColumnsWitnessed ==
    /\ pc = "s2d_transformed"
    /\ drift_data \in LoadedFrames
    /\ {"rating", "stars"} \subseteq drift_data.columns
    /\ "score" \notin drift_data.columns
    /\ transformed.rows # <<>>
    /\ transformed.rows[1].score = Some(4)


-----------------------------------------------------------------------------
(* Claims about the ingestion                                              *)

IngestionEnded == pc \in {"ing_done", "ing_returned"}

\* The calls of the log made through one function, and their app ids.
LoggedCalls(call) == SelectSeq(fetch_log, LAMBDA c : c.call = call)

IdsOf(calls) == [i \in DOMAIN calls |-> calls[i].app_id]

\* The app ids whose call was answered as given, in the order of the calls.
Answered(call, answer) == IdsOf(SelectSeq(LoggedCalls(call), LAMBDA c : c.answer = answer))

\* C23: a fetch that fails does not stop the loop.  extract_app_metadata and
\* extract_app_reviews call the store once for every app id of the list, in
\* the order of the list, whichever calls fail, and return what the
\* successful calls gave, in that order.
C23_LoopSurvivesFailures ==
    /\ IngestionEnded /\ app_ids # <<>> => IdsOf(LoggedCalls("app")) = app_ids
    /\ pc = "ing_done" =>
         /\ IdsOf(LoggedCalls("reviews")) = app_ids
         /\ [k \in DOMAIN apps_data |-> Val(apps_data[k].appId)] = Answered("app", "ok")
         /\ [k \in DOMAIN reviews_data |-> Val(reviews_data[k].app_id)]
              = Answered("reviews", "some")

\* C23 witness: in both loops the call for the first app raised and the call
\* for the second app returned, and the second app is in both results.
C23_Witness ==
    /\ pc = "ing_done"
    /\ Len(app_ids) = 2
    /\ Answered("app", "raises") = <<app_ids[1]>>
    /\ Answered("reviews", "raises") = <<app_ids[1]>>
    /\ Len(apps_data) = 1 /\ apps_data[1].appId = Some(app_ids[2])
    /\ Len(reviews_data) = 1 /\ reviews_data[1].app_id = Some(app_ids[2])


\* C24: no fetch is retried, and an app whose metadata fetch failed is absent
\* from the raw store the ingestion leaves: the store holds no metadata
\* record of it and no review tagged with its app_id.
C24_FailedAppAbsent ==
    IngestionEnded =>
        /\ \A i, j \in DOMAIN fetch_log :
               fetch_log[i].call = fetch_log[j].call /\ fetch_log[i].app_id = fetch_log[j].app_id
                   => i = j
        /\ \A failed \in Range(Answered("app", "raises")) :
               /\ \A k \in DOMAIN apps_data : apps_data[k].appId # Some(failed)
               /\ \A k \in DOMAIN reviews_data : reviews_data[k].app_id # Some(failed)


-----------------------------------------------------------------------------
(* Claims about the driver                                                 *)

\* The step names and the outcomes of the results list.
NamesOf(list) == [k \in DOMAIN list |-> list[k][1]]

Succeeded(k) == results[k][2]

\* Every step recorded before place k succeeded.
AllSucceededBefore(k) == \A j \in 1..(k - 1) : Succeeded(j)

\* C22: the driver starts the four stages in the order ingestion,
\* transformation, serving, dashboard; a stage is started only when every
\* earlier stage has been run and has succeeded, no stage is started after a
\* failure, and the list of the final summary names exactly the stages that
\* were run, with at most one failure, which is its last entry.
C22_StagesInOrder ==
    /\ [](/\ Len(results) <= Len(steps)
          /\ NamesOf(results) = SubSeq(steps, 1, Len(results))
          /\ AllSucceededBefore(Len(results))
          /\ driver = "running" => step = Len(results) + 1 /\ AllSucceededBefore(step)
          /\ driver = "summary" =>
                 /\ step = Len(results)
                 /\ ~Succeeded(Len(results)) \/ Len(results) = Len(steps))
    /\ [][(driver' = "running" /\ driver # "running")
             => step' = Len(results) + 1 /\ AllSucceededBefore(step')]_vars
    /\ [][driver = "summary" \/ driver = "cancelled" => driver' = driver /\ pc' = pc]_vars
    /\ [][pc' # pc /\ pc' \notin {EntryOf(k) : k \in DOMAIN steps}
             => driver = "running" /\ pc' \in EndsOf(step)]_vars

\* C22 witness: the third stage failed after two stages that succeeded, and
\* the driver is at its summary.
C22_Witness ==
    /\ driver = "summary"
    /\ Len(results) = 3
    /\ Succeeded(1) /\ Succeeded(2) /\ ~Succeeded(3)


\* The driver has recorded a failure of step k and started nothing after it.
StoppedAt(k) == Len(results) = k /\ ~Succeeded(k) /\ driver = "summary"

\* C21: a stage that ends with zero apps ends as a failure, and the driver
\* starts no later stage: the ingestion when it extracted no app, the
\* transformation when no app was transformed.
C21_ZeroAppsIsFatal ==
    /\ Len(results) >= 1 /\ apps_data = <<>> => StoppedAt(1)
    /\ Len(results) >= 2 /\ df_apps = <<>> => StoppedAt(2)

\* The part of C21 about the transformation.
C21_TransformationPart == Len(results) >= 2 /\ df_apps = <<>> => StoppedAt(2)

\* C30: when the ingestion collected apps and no review, the transformation
\* and the serving layer both end without failure, on an empty review table
\* and with empty KPI and daily tables.
C30_EmptyReviewsContinue ==
    /\ Len(results) >= 2 /\ apps_data # <<>> /\ reviews_data = <<>> =>
           Succeeded(2) /\ df_reviews = <<>> /\ files.apps_reviews = <<>>
    /\ Len(results) >= 3 /\ apps_data # <<>> /\ reviews_data = <<>> =>
           Succeeded(3) /\ app_kpis = <<>> /\ daily_metrics = <<>>

\* The part of C30 about the transformation.
C30_TransformationPart ==
    Len(results) >= 2 /\ apps_data # <<>> /\ reviews_data = <<>> =>
        Succeeded(2) /\ df_reviews = <<>> /\ files.apps_reviews = <<>>


-----------------------------------------------------------------------------
(* Claims about the entry of the scenarios                                 *)

\* Nothing was loaded, transformed or produced by the scenario.
Scenario2Untouched ==
    drift_data = NoDriftFrame /\ mappings = <<>> /\ schema_map = <<>> /\ transformed = NoDriftFrame

Scenario3Untouched == dirty_data = <<>> /\ clean_data = <<>> /\ report = NoReport

Scenario4Untouched == apps = <<>> /\ applied = <<>> /\ apps_smart = NoFrame /\ JoinIdle

AbortedPositions == {"s2d_aborted", "s3d_aborted", "s4_aborted"}

\* C25: when the input file of scenario 2, 3 or 4 is absent, main reports it
\* and returns: the scenario leaves its start only to abort, it transforms
\* nothing and produces nothing to write, and nothing happens afterwards.
C25_MissingInputAborts ==
    /\ [](/\ pc = "s2d_aborted" => DriftFile \notin raw_files
          /\ pc = "s3d_aborted" => DirtyFile \notin raw_files
          /\ pc = "s4_aborted" => UpdatedAppsFile \notin raw_files
          /\ DriftFile \notin raw_files => Scenario2Untouched
          /\ DirtyFile \notin raw_files => Scenario3Untouched
          /\ UpdatedAppsFile \notin raw_files => Scenario4Untouched)
    /\ [][/\ pc = "s2d_start" /\ DriftFile \notin raw_files => pc' = "s2d_aborted"
          /\ pc = "s3d_start" /\ DirtyFile \notin raw_files => pc' = "s3d_aborted"
          /\ pc = "s4_start" /\ UpdatedAppsFile \notin raw_files => pc' = "s4_aborted"
          /\ pc \notin AbortedPositions]_vars

\* C25 witness: scenario 3 has aborted, its file being the only absent one.
C25_Witness ==
    /\ pc = "s3d_aborted"
    /\ raw_files = ScenarioFiles \ {DirtyFile}
    /\ Scenario3Untouched


-----------------------------------------------------------------------------
(* Claims about the purity of the aggregation, 3_serving_layer.py          *)

\* The columns of a review table.
ColumnsOf(table) == UNION {DOMAIN table[i] : i \in DOMAIN table}

\* C26: create_app_level_kpis and create_daily_metrics leave the review set
\* they are given unchanged: after the aggregation the reviews in memory are
\* the loaded ones, no row or field added, removed or altered.
C26_ReviewSetUnchanged ==
    pc = "s3_done" => served = load_processed_data(files.apps_reviews)

\* The part of C26 that holds: the rows are the loaded rows in the loaded
\* order with every loaded field unaltered, and aggregating the frame a
\* second time, after create_daily_metrics has run, gives the same KPI rows
\* and the same daily rows.
C26_SameAggregates ==
    pc = "s3_done" =>
        LET loaded == load_processed_data(files.apps_reviews)
        IN  /\ Len(served) = Len(loaded)
            /\ \A i \in DOMAIN loaded : \A c \in DOMAIN loaded[i] : served[i][c] = loaded[i][c]
            /\ app_kpis \in create_app_level_kpis(served)
            /\ daily_metrics = create_daily_metrics(served)

\* The field create_daily_metrics leaves behind in the frame.
C26_DateColumnAdded ==
    /\ pc = "s3_done"
    /\ "date" \in ColumnsOf(served)
    /\ "date" \notin ColumnsOf(load_processed_data(files.apps_reviews))


-----------------------------------------------------------------------------
(* Claims about the app names of the reviews, 2_data_transformation.py     *)

\* The raw app records of each appId are one record.
DistinctRawApps ==
    \A i, j \in DOMAIN apps_data :
        Get(apps_data[i], "appId", Some("")) = Get(apps_data[j], "appId", Some("")) => i = j

\* The app_name of every output review is the title of the catalog record
\* of the review's app.
NamesFromCatalog ==
    \A i \in DOMAIN df_reviews :
        \E k \in DOMAIN df_apps :
            /\ df_apps[k].appId = df_reviews[i].app_id
            /\ df_apps[k].title = df_reviews[i].app_name

\* C27: for every output review of the transformation step, app_name equals
\* the title of the apps-catalog record whose appId equals the review's
\* app_id, also when the raw app list holds the same appId several times
\* with different titles.
C27_AppNameIsCatalogTitle == pc = "s2_done" => NamesFromCatalog

\* The part of C27 that holds: the names agree when no appId occurs twice in
\* the raw app list.
C27_DistinctAppsAgree == pc = "s2_done" /\ DistinctRawApps => NamesFromCatalog

\* A review named after a title the catalog does not hold.
C27_NameOutsideCatalog ==
    /\ pc = "s2_done"
    /\ \E i \in DOMAIN df_reviews :
           \A k \in DOMAIN df_apps : df_apps[k].title # df_reviews[i].app_name


-----------------------------------------------------------------------------
(* Claims about the summary of transform_reviews_data                      *)

\* The removals the summary reports.
ReportedRemovals == summary.duplicates + summary.invalid

\* C29: the summary of transform_reviews_data accounts for every input
\* review exactly once: the number of input reviews is the number of output
\* reviews plus the skipped reviews, the reported duplicate removals, the
\* reported invalid removals and the reported errors.
C29_SummaryAccounts ==
    pc = "s2_done" =>
        Len(reviews_data) = Len(df_reviews) + summary.skipped + ReportedRemovals + summary.errors

\* The part of C29 that holds: the count reported as duplicate removals is
\* taken after the invalid rows were dropped, so it holds the invalid
\* removals too, and the input is accounted for without the invalid count.
C29_DuplicatesHoldInvalid ==
    pc = "s2_done" =>
        /\ Len(reviews_data) = Len(df_reviews) + summary.skipped + summary.duplicates + summary.errors
        /\ summary.duplicates >= summary.invalid

\* A review removed as invalid and reported twice.
C29_CountedTwice ==
    /\ pc = "s2_done"
    /\ summary.reported
    /\ summary.invalid > 0
    /\ Len(df_reviews) + summary.skipped + ReportedRemovals + summary.errors > Len(reviews_data)


-----------------------------------------------------------------------------
(* Claims about the records handle_duplicates_smart returns                *)

\* The output is a table of records (the picks of all groups carry the same
\* labels).
ResolvedToRecords == pc = "s4_resolved" /\ apps_smart.kind = "DataFrame"

\* Some appId occurs on several input rows.
SomeDuplicatedAppId == \E i, j \in DOMAIN apps : i # j /\ apps[i].appId = apps[j].appId

\* C28: each output record of handle_duplicates_smart is field for field
\* one of the input records with that appId: the reconciliation adds no
\* field and alters none, whether the appId was duplicated or not.
C28_OutputIsInputRecord ==
    ResolvedToRecords =>
        \A k \in DOMAIN apps_smart.rows : \E i \in DOMAIN apps : apps[i] = apps_smart.rows[k]

\* The part of C28 that holds: on the columns of the input every output
\* record is an input record with that appId, and it is the input record
\* itself when no appId is duplicated.
C28_InputColumnsKept ==
    ResolvedToRecords =>
        /\ \A k \in DOMAIN apps_smart.rows :
               \E i \in DOMAIN apps :
                   \A c \in AppColumns : apps[i][c] = apps_smart.rows[k][c]
        /\ ~SomeDuplicatedAppId =>
               \A k \in DOMAIN apps_smart.rows : \E i \in DOMAIN apps : apps[i] = apps_smart.rows[k]

\* An output record that carries the two ranking columns.
C28_RankColumnsKept ==
    /\ ResolvedToRecords
    /\ \E k \in DOMAIN apps_smart.rows :
           {"has_score", "complete_fields"} \subseteq DOMAIN apps_smart.rows[k]

====
